---- MODULE Spec2Model ----
(***************************************************************************)
(* Model of the springbootplusplus_data annotation processor.              *)
(*                                                                         *)
(* Header files are kept as the bytes on disk, split at the line           *)
(* terminators: a file is a sequence of strings, every string one physical *)
(* line with its terminator ("\n" or "\r\n"; the last line may have none). *)
(* All scanners work on real text, character by character, the way the     *)
(* regular expressions and str methods of the Python source do.            *)
(***************************************************************************)
EXTENDS Integers, Sequences, FiniteSets, TLC

VARIABLES
    disk,                 \* path -> [exists, readable, lines]: the file system
    linesep,              \* os.linesep of the platform the scripts run on
    SERIALIZABLE_MACRO,   \* the annotation the entity batch looks for
    last                  \* the most recent call: what it was given and returned

vars == <<disk, linesep, SERIALIZABLE_MACRO, last>>

(***************************************************************************)
(* Characters and str helpers                                              *)
(***************************************************************************)
Lower == {"a","b","c","d","e","f","g","h","i","j","k","l","m",
          "n","o","p","q","r","s","t","u","v","w","x","y","z"}
Upper == {"A","B","C","D","E","F","G","H","I","J","K","L","M",
          "N","O","P","Q","R","S","T","U","V","W","X","Y","Z"}
Digit == {"0","1","2","3","4","5","6","7","8","9"}
Space == {" ", "\t", "\n", "\r"}

IdentStart == Lower \cup Upper \cup {"_"}
IdentChar  == IdentStart \cup Digit

\* s[i] as a one-character string, "" outside the string
Ch(s, i) == IF i >= 1 /\ i <= Len(s) THEN SubSeq(s, i, i) ELSE ""

\* s[i-1:] in Python terms: the suffix that starts at position i (1-based)
From(s, i) == SubSeq(s, i, Len(s))

\* literal lit occurs in s at position i
LitAt(s, i, lit) == /\ i >= 1
                    /\ i + Len(lit) - 1 <= Len(s)
                    /\ SubSeq(s, i, i + Len(lit) - 1) = lit

StartsWith(s, lit) == LitAt(s, 1, lit)
EndsWith(s, lit)   == LitAt(s, Len(s) - Len(lit) + 1, lit)

\* Python's `lit in s`
Contains(s, lit) == \E i \in 1..(Len(s) + 1) : LitAt(s, i, lit)

\* str.count for a one-character needle
Count(s, c) == Cardinality({i \in 1..Len(s) : Ch(s, i) = c})

\* first position >= i that does not hold a character of set cs (\s*, \w*)
RECURSIVE Skip(_, _, _)
Skip(s, i, cs) == IF i <= Len(s) /\ Ch(s, i) \in cs THEN Skip(s, i + 1, cs) ELSE i

\* last position <= i that does not hold a whitespace character
RECURSIVE SkipBack(_, _)
SkipBack(s, i) == IF i >= 1 /\ Ch(s, i) \in Space THEN SkipBack(s, i - 1) ELSE i

LStrip(s) == From(s, Skip(s, 1, Space))
RStrip(s) == SubSeq(s, 1, SkipBack(s, Len(s)))
Strip(s)  == RStrip(LStrip(s))

\* number of leading whitespace characters: len(line) - len(line.lstrip())
LeadingWs(s) == Skip(s, 1, Space) - 1

\* ' ' * n
RECURSIVE Spaces(_)
Spaces(n) == IF n <= 0 THEN "" ELSE " " \o Spaces(n - 1)

\* ''.join(seq[lo..hi]), halving the range
RECURSIVE JoinRange(_, _, _)
JoinRange(seq, lo, hi) ==
    IF lo > hi THEN ""
    ELSE IF lo = hi THEN seq[lo]
    ELSE JoinRange(seq, lo, (lo + hi) \div 2) \o JoinRange(seq, (lo + hi) \div 2 + 1, hi)

\* ''.join(seq)
Join(seq) == JoinRange(seq, 1, Len(seq))

Min(S) == CHOOSE x \in S : \A y \in S : x <= y
Max(S) == CHOOSE x \in S : \A y \in S : x >= y

None == <<>>

(***************************************************************************)
(* File access.  open(path, 'r') decodes with universal newlines, so the   *)
(* lines a script sees end in "\n" whatever the file holds; open(path,'w') *)
(* writes every "\n" as os.linesep.                                        *)
(***************************************************************************)
\* a file system is a function path -> [exists, readable, lines]
CanRead(fs, path) == fs[path].exists /\ fs[path].readable

Decode(line) == IF EndsWith(line, "\r\n")
                THEN SubSeq(line, 1, Len(line) - 2) \o "\n"
                ELSE line

Encode(line) == IF EndsWith(line, "\n")
                THEN SubSeq(line, 1, Len(line) - 1) \o linesep
                ELSE line

\* file.readlines()
ReadLines(fs, path) == [i \in 1..Len(fs[path].lines) |-> Decode(fs[path].lines[i])]

\* str.splitlines(keepends=True) for text whose only line break is "\n"
SplitLines(s) ==
    LET nl == SelectSeq([i \in 1..Len(s) |-> i], LAMBDA i : Ch(s, i) = "\n")
        whole == [k \in 1..Len(nl) |->
                     SubSeq(s, (IF k = 1 THEN 1 ELSE nl[k - 1] + 1), nl[k])]
        done == IF nl = <<>> THEN 0 ELSE nl[Len(nl)]
    IN  IF done < Len(s) THEN Append(whole, From(s, done + 1)) ELSE whole

\* the physical lines of what file.writelines(ls) leaves on disk: the
\* elements are written one after the other, whatever line breaks they
\* hold (nothing to do when every element is exactly one terminated line)
Physical(ls) ==
    IF \A i \in 1..Len(ls) :
           \/ EndsWith(ls[i], "\n") /\ Count(ls[i], "\n") = 1
           \/ i = Len(ls) /\ ls[i] # "" /\ Count(ls[i], "\n") = 0
    THEN ls
    ELSE SplitLines(Join(ls))

\* the file that open(path, 'w') and file.writelines(ls) leave behind
WriteLines(ls) == LET p == Physical(ls)
                  IN  [exists |-> TRUE, readable |-> TRUE,
                       lines |-> [i \in 1..Len(p) |-> Encode(p[i])]]

(***************************************************************************)
(* S2_extract_dto_fields.find_class_boundaries                             *)
(***************************************************************************)
\* re.search(rf'class\s+{re.escape(class_name)}', s)
ClassDeclSearch(s, class_name) ==
    \E i \in 1..Len(s) :
        /\ LitAt(s, i, "class")
        /\ Ch(s, i + 5) \in Space
        /\ LitAt(s, Skip(s, i + 5, Space), class_name)

IsCommentLine(stripped) ==
    StartsWith(stripped, "//") \/ StartsWith(stripped, "/*") \/ StartsWith(stripped, "*")

BraceDelta(stripped) == Count(stripped, "{") - Count(stripped, "}")

\* the body of the for loop of find_class_boundaries at line k; st holds
\* the locals in_class, class_start and brace_count, and end, the line at
\* which the loop returned (0 while it has not)
BoundaryStep(lines, class_name, k, st) ==
    LET stripped == Strip(lines[k]) IN
    IF IsCommentLine(stripped) THEN st
    ELSE LET st2 ==
               IF ~st.in_class /\ ClassDeclSearch(stripped, class_name)
               THEN [st EXCEPT !.in_class = TRUE, !.class_start = k,
                               !.brace_count = BraceDelta(stripped)]
               ELSE IF st.in_class
               THEN [st EXCEPT !.brace_count = @ + BraceDelta(stripped)]
               ELSE st
         IN  IF st2.in_class /\ st2.brace_count = 0
             THEN [st2 EXCEPT !.end = k]
             ELSE st2

\* the for loop over lines lo..hi, run as two halves one after the other
RECURSIVE ScanBoundaries(_, _, _, _, _)
ScanBoundaries(lines, class_name, lo, hi, st) ==
    IF st.end > 0 \/ lo > hi THEN st
    ELSE IF lo = hi THEN BoundaryStep(lines, class_name, lo, st)
    ELSE ScanBoundaries(lines, class_name, (lo + hi) \div 2 + 1, hi,
                        ScanBoundaries(lines, class_name, lo, (lo + hi) \div 2, st))

\* find_class_boundaries on lines already read: (start_line, end_line) or None
BoundariesOf(lines, class_name) ==
    LET st == ScanBoundaries(lines, class_name, 1, Len(lines),
                  [in_class |-> FALSE, class_start |-> 0, brace_count |-> 0, end |-> 0])
    IN  IF st.end > 0 THEN <<st.class_start, st.end>> ELSE None

\* find_class_boundaries(file_path, class_name): the read failure is
\* swallowed by `except: pass`, and the loop then reads the unbound local
\* `lines`, which raises UnboundLocalError
FindClassBoundaries(fs, path, class_name) ==
    IF ~CanRead(fs, path)
    THEN [raised |-> TRUE, span |-> None]
    ELSE [raised |-> FALSE, span |-> BoundariesOf(ReadLines(fs, path), class_name)]

(***************************************************************************)
(* S1_check_dto_macro.check_dto_annotation                                 *)
(***************************************************************************)
\* "_Entity" -> "@Entity", anything else -> "@Serializable"
AnnotationName(serializable_annotation) ==
    IF serializable_annotation = "_Entity" THEN "@Entity" ELSE "@Serializable"

\* the regex  open \s* name \s* close  matched at position i of s; the
\* position after the match, or 0 when there is none
DelimitedAt(s, i, open, name, close) ==
    IF ~LitAt(s, i, open) THEN 0
    ELSE LET j == Skip(s, i + Len(open), Space) IN
         IF ~LitAt(s, j, name) THEN 0
         ELSE LET k == Skip(s, j + Len(name), Space) IN
              IF LitAt(s, k, close) THEN k + Len(close) ELSE 0

\* re.search(rf'/\*\s*{name}\s*\*/', s)
AnnotationSearch(s, name) ==
    \E i \in 1..Len(s) : DelimitedAt(s, i, "/*", name, "*/") > 0

\* re.search(rf'/\*--\s*{name}\s*--\*/', s)
ProcessedSearch(s, name) ==
    \E i \in 1..Len(s) : DelimitedAt(s, i, "/*--", name, "--*/") > 0

\* r'class\s+([A-Za-z_][A-Za-z0-9_]*)\s*(?:[:{])' matched at position i:
\* the captured class name, or "" when the pattern does not match there
ClassPatternAt(s, i) ==
    IF ~(LitAt(s, i, "class") /\ Ch(s, i + 5) \in Space) THEN ""
    ELSE LET j == Skip(s, i + 5, Space) IN
         IF Ch(s, j) \notin IdentStart THEN ""
         ELSE LET e == Skip(s, j + 1, IdentChar)
                  k == Skip(s, e, Space)
              IN  IF Ch(s, k) \in {":", "{"} THEN SubSeq(s, j, e - 1) ELSE ""

\* re.search(class_pattern, s).group(1), "" when there is no match
ClassPatternSearch(s) ==
    LET hits == {i \in 1..Len(s) : ClassPatternAt(s, i) # ""}
    IN  IF hits = {} THEN "" ELSE ClassPatternAt(s, Min(hits))

\* re.match(r'^[A-Z][A-Za-z0-9_]*\s*(?:\(|$)', s)
MacroLikeMatch(s) ==
    /\ Ch(s, 1) \in Upper
    /\ LET k == Skip(s, Skip(s, 2, IdentChar), Space)
       IN  Ch(s, k) = "(" \/ k = Len(s) + 1

known_annotations == <<"COMPONENT", "SCOPE", "VALIDATE", "Dto">>

StartsWithAny(s, prefixes) == \E n \in 1..Len(prefixes) : StartsWith(s, prefixes[n])

\* the look-ahead loop: i runs over range(line_num, min(line_num + 11, len(lines) + 1));
\* the class found (name and line), or None when the loop ends or breaks
RECURSIVE DtoLookAhead(_, _, _, _)
DtoLookAhead(lines, name, i, stop) ==
    IF i >= stop THEN None
    ELSE LET next_line == Strip(lines[i]) IN
         IF StartsWith(next_line, "/*") /\ ~AnnotationSearch(next_line, name)
         THEN DtoLookAhead(lines, name, i + 1, stop)
         ELSE IF StartsWith(next_line, "//")
         THEN DtoLookAhead(lines, name, i + 1, stop)
         ELSE IF ClassPatternSearch(next_line) # ""
         THEN <<ClassPatternSearch(next_line), i>>
         ELSE IF next_line # "" /\ ~(\/ StartsWithAny(next_line, known_annotations)
                                     \/ MacroLikeMatch(next_line)
                                     \/ AnnotationSearch(next_line, name))
         THEN None
         ELSE DtoLookAhead(lines, name, i + 1, stop)

\* the outer loop without its `continue` on a line in processed form
DtoCandidateUnskipped(lines, name, line_num) ==
    LET stripped_line == Strip(lines[line_num]) IN
    ~(\/ (StartsWith(stripped_line, "/*") /\ ~AnnotationSearch(stripped_line, name))
      \/ StartsWith(stripped_line, "//")
      \/ ~AnnotationSearch(stripped_line, name))

\* the outer loop reaches the look-ahead at line line_num: the line holds
\* the annotation, not in processed form, and is not a // comment
DtoCandidate(lines, name, line_num) ==
    LET stripped_line == Strip(lines[line_num]) IN
    ~(\/ ProcessedSearch(stripped_line, name)
      \/ (StartsWith(stripped_line, "/*") /\ ~AnnotationSearch(stripped_line, name))
      \/ StartsWith(stripped_line, "//")
      \/ ~AnnotationSearch(stripped_line, name))

\* a look-ahead that runs to the end of the file
DtoHitUnbounded(lines, name, line_num) ==
    DtoLookAhead(lines, name, line_num, Len(lines) + 1)

\* the look-ahead of the annotation at line line_num
DtoHit(lines, name, line_num) ==
    DtoLookAhead(lines, name, line_num, Min({line_num + 11, Len(lines) + 1}))

\* the outer loop of check_dto_annotation: it returns at the first
\* annotation line whose look-ahead finds a class
DtoScan(lines, name) ==
    LET Report(found) ==
            IF found = {}
            THEN [has_dto |-> FALSE, class_name |-> "", dto_line |-> 0, class_line |-> 0]
            ELSE LET At(hit) == [has_dto |-> TRUE, class_name |-> hit[1],
                                 dto_line |-> Min(found), class_line |-> hit[2]]
                 IN  At(DtoHit(lines, name, Min(found)))
    IN  Report({line_num \in 1..Len(lines) :
                   DtoCandidate(lines, name, line_num)
                   /\ DtoHit(lines, name, line_num) # None})

\* check_dto_annotation on lines already read
DtoInfoOf(lines, serializable_annotation) ==
    DtoScan(lines, AnnotationName(serializable_annotation))

\* check_dto_annotation(file_path, serializable_annotation): both except
\* clauses only `pass`, so an unreadable file ends in UnboundLocalError
CheckDtoAnnotation(fs, path, serializable_annotation) ==
    IF ~CanRead(fs, path)
    THEN [raised |-> TRUE,
          info |-> [has_dto |-> FALSE, class_name |-> "", dto_line |-> 0, class_line |-> 0]]
    ELSE [raised |-> FALSE, info |-> DtoInfoOf(ReadLines(fs, path), serializable_annotation)]

(***************************************************************************)
(* Field declarations: the field_pattern regular expressions               *)
(***************************************************************************)
LowerOf(c) ==
    CASE c = "A" -> "a" [] c = "B" -> "b" [] c = "C" -> "c" [] c = "D" -> "d"
      [] c = "E" -> "e" [] c = "F" -> "f" [] c = "G" -> "g" [] c = "H" -> "h"
      [] c = "I" -> "i" [] c = "J" -> "j" [] c = "K" -> "k" [] c = "L" -> "l"
      [] c = "M" -> "m" [] c = "N" -> "n" [] c = "O" -> "o" [] c = "P" -> "p"
      [] c = "Q" -> "q" [] c = "R" -> "r" [] c = "S" -> "s" [] c = "T" -> "t"
      [] c = "U" -> "u" [] c = "V" -> "v" [] c = "W" -> "w" [] c = "X" -> "x"
      [] c = "Y" -> "y" [] c = "Z" -> "z" [] OTHER -> c

\* str.lower()
RECURSIVE ToLower(_)
ToLower(s) == IF s = "" THEN "" ELSE LowerOf(Ch(s, 1)) \o ToLower(From(s, 2))

\* the character class [A-Za-z0-9_<>*&,\s] of a field's type
TypeChar == IdentChar \cup {"<", ">", "*", "&", ","} \cup Space

\* \s+([A-Za-z_][A-Za-z0-9_]*)\s*[;=] matched right after position p:
\* <<first, last>> position of the captured name, or None
FieldTail(s, p) ==
    IF Ch(s, p + 1) \notin Space THEN None
    ELSE LET q == Skip(s, p + 1, Space) IN
         IF Ch(s, q) \notin IdentStart THEN None
         ELSE LET e == Skip(s, q + 1, IdentChar)
                  k == Skip(s, e, Space)
              IN  IF Ch(s, k) \in {";", "="} THEN <<q, e - 1>> ELSE None

\* ([A-Za-z_][A-Za-z0-9_<>*&,\s]*?)\s+([A-Za-z_][A-Za-z0-9_]*)\s*[;=] with
\* the first group starting at position start: the lazy group takes the
\* shortest text that lets the rest match.  [type, name] or None
FieldFrom(s, start) ==
    IF Ch(s, start) \notin IdentStart THEN None
    ELSE LET typeEnd == Skip(s, start + 1, TypeChar) - 1
             ends == {p \in start..typeEnd : FieldTail(s, p) # None}
         IN  IF ends = {} THEN None
             ELSE LET p == Min(ends)
                      nm == FieldTail(s, p)
                  IN  [type |-> Strip(SubSeq(s, start, p)),
                       name |-> Strip(SubSeq(s, nm[1], nm[2]))]

\* S2 field_pattern: r'^\s*(type)\s+(name)\s*[;=]'
FieldPatternS2(s) == FieldFrom(s, Skip(s, 1, Space))

access_words == <<"public", "private", "protected">>

\* re.search(r'^\s*(public|private|protected)\s*:', s, re.IGNORECASE)
AccessPatternSearch(s) ==
    LET a == Skip(s, 1, Space)
        low == ToLower(s)
    IN  \E n \in 1..Len(access_words) :
            /\ LitAt(low, a, access_words[n])
            /\ Ch(s, Skip(s, a + Len(access_words[n]), Space)) = ":"

\* the test that keeps a match as a field: no parentheses on the line and
\* the name is not an access keyword
LooksLikeField(stripped, name) ==
    /\ ~Contains(stripped, "(")
    /\ ~Contains(stripped, ")")
    /\ name \notin {"public", "private", "protected"}

(***************************************************************************)
(* S2_extract_dto_fields.extract_all_fields                                *)
(***************************************************************************)
\* the body of the for loop over class_lines: the field the line appends
\* to fields, or None
FieldOnLine(line) ==
    LET stripped == Strip(line)
        Keep(m) == IF m # None /\ LooksLikeField(stripped, m.name) THEN m ELSE None
    IN  IF StartsWith(stripped, "//") \/ StartsWith(stripped, "/*") THEN None
        ELSE IF stripped = "" THEN None
        ELSE IF AccessPatternSearch(stripped) THEN None
        ELSE Keep(FieldPatternS2(stripped))

\* the entries of seq that are not None, in order
Found(seq) == SelectSeq(seq, LAMBDA e : e # None)

FieldsOfLines(class_lines) ==
    Found([k \in 1..Len(class_lines) |-> FieldOnLine(class_lines[k])])

\* extract_all_fields on lines already read
AllFieldsOf(lines, class_name) ==
    LET Within(boundaries) ==
            IF boundaries = None THEN <<>>
            ELSE FieldsOfLines(SubSeq(lines, boundaries[1], boundaries[2]))
    IN  Within(BoundariesOf(lines, class_name))

\* extract_all_fields(file_path, class_name): find_class_boundaries raises
\* on an unreadable file, and nothing here catches it
ExtractAllFields(fs, path, class_name) ==
    IF ~CanRead(fs, path)
    THEN [raised |-> TRUE, fields |-> <<>>]
    ELSE [raised |-> FALSE, fields |-> AllFieldsOf(ReadLines(fs, path), class_name)]

(***************************************************************************)
(* S3_inject_serialization: type helpers                                   *)
(***************************************************************************)
is_optional_type(field_type) ==
    Contains(Strip(field_type), "optional<") \/ Contains(Strip(field_type), "std::optional<")

\* re.search(r'(?:std::)?optional<(.+)>', field_type): the greedy group runs
\* to the last '>' of the text
extract_inner_type_from_optional(field_type) ==
    LET opens == {i \in 1..Len(field_type) : LitAt(field_type, i, "optional<")}
        closes == {j \in 1..Len(field_type) : Ch(field_type, j) = ">"}
    IN  IF opens = {} \/ closes = {} \/ (opens # {} /\ closes # {} /\ Max(closes) < Min(opens) + 10)
        THEN field_type
        ELSE Strip(SubSeq(field_type, Min(opens) + 9, Max(closes) - 1))

(***************************************************************************)
(* extract_id_fields.extract_id_fields                                     *)
(***************************************************************************)
\* a validation macro table is a sequence of [macro, function] records, in
\* the order of the dict that find_validation_macro_definitions returns

\* the optional prefix (?:Public|Private|Protected)? matched at position a:
\* the position after it when the keyword is there, 0 otherwise
AccessKeywordAt(s, a) ==
    IF LitAt(s, a, "Public") THEN a + 6
    ELSE IF LitAt(s, a, "Private") THEN a + 7
    ELSE IF LitAt(s, a, "Protected") THEN a + 9
    ELSE 0

\* (?:const\s+)? matched at position c: the position after it, 0 when absent
ConstAt(s, c) ==
    IF LitAt(s, c, "const") /\ Ch(s, c + 5) \in Space THEN Skip(s, c + 5, Space) ELSE 0

\* r'^\s*(?:Public|Private|Protected)?\s*(?:const\s+)?(type)\s+(name)\s*[;=]':
\* each optional group is tried present first, absent on backtracking
FieldPatternId(s) ==
    LET a == Skip(s, 1, Space)
        b == AccessKeywordAt(s, a)
        Or(first, second) == IF first # None THEN first ELSE second
        try(c) == IF ConstAt(s, c) > 0
                  THEN Or(FieldFrom(s, ConstAt(s, c)), FieldFrom(s, c))
                  ELSE FieldFrom(s, c)
    IN  IF b > 0 THEN Or(try(Skip(s, b, Space)), try(a)) ELSE try(a)

\* the first macro of the table whose annotation /* @Macro */ is on the line, "" if none
RECURSIVE BlockMacroOn(_, _, _)
BlockMacroOn(s, macros, n) ==
    IF n > Len(macros) THEN ""
    ELSE IF AnnotationSearch(s, "@" \o macros[n].macro) THEN macros[n].macro
    ELSE BlockMacroOn(s, macros, n + 1)

id_stop_words == {"Dto", "Serializable", "_Entity", "COMPONENT", "SCOPE", "VALIDATE"}

\* the line stops the look-ahead: an access specifier, or a line that is
\* one of the stop words alone
IdStopLine(next_line) ==
    AccessPatternSearch(next_line) \/ next_line \in id_stop_words

\* the look-ahead loop for j in range(i + 1, min(i + 16, len(class_lines)))
\* (j and stop are 1-based here); found are the validation macros met so far
RECURSIVE IdLookAhead(_, _, _, _, _)
IdLookAhead(class_lines, macros, j, stop, found) ==
    IF j >= stop THEN None
    ELSE LET next_line == Strip(class_lines[j])
             macro == BlockMacroOn(next_line, macros, 1)
             Field(m) ==
                 IF m # None
                 THEN IF LooksLikeField(next_line, m.name)
                      THEN [type |-> m.type, name |-> m.name, validation_macros |-> found]
                      ELSE None
                 ELSE IF IdStopLine(next_line) THEN None
                 ELSE IdLookAhead(class_lines, macros, j + 1, stop, found)
         IN  IF StartsWith(next_line, "/*")
                /\ ~(AnnotationSearch(next_line, "@Id") \/ macro # "")
             THEN IdLookAhead(class_lines, macros, j + 1, stop, found)
             ELSE IF StartsWith(next_line, "//") \/ next_line = ""
             THEN IdLookAhead(class_lines, macros, j + 1, stop, found)
             ELSE IF macro # ""
             THEN IdLookAhead(class_lines, macros, j + 1, stop, Append(found, macro))
             ELSE Field(FieldPatternId(next_line))

\* the body of the while loop of extract_id_fields at class line i
\* (1-based): the marker of that line with the field it found, or None
IdOnLine(class_lines, macros, i) ==
    LET stripped == Strip(class_lines[i])
        Marked(hit) == IF hit = None THEN None ELSE [marker |-> i, field |-> hit]
    IN  IF \/ (StartsWith(stripped, "/*") /\ ~AnnotationSearch(stripped, "@Id"))
           \/ StartsWith(stripped, "//")
           \/ stripped = ""
           \/ ProcessedSearch(stripped, "@Id")
           \/ ~AnnotationSearch(stripped, "@Id")
        THEN None
        ELSE Marked(IdLookAhead(class_lines, macros, i + 1,
                                Min({i + 16, Len(class_lines) + 1}), <<>>))

\* the while loop: one entry per @Id marker that found its field
IdScan(class_lines, macros) ==
    Found([i \in 1..Len(class_lines) |-> IdOnLine(class_lines, macros, i)])

\* the @Id markers extract_id_fields associates with a field: the marker's
\* line in the file and the field
IdMarkersOf(lines, class_name, macros) ==
    LET Within(boundaries) ==
            IF boundaries = None THEN <<>>
            ELSE LET InFile(hits) ==
                         [n \in 1..Len(hits) |->
                             [marker |-> hits[n].marker + boundaries[1] - 1,
                              field |-> hits[n].field]]
                 IN  InFile(IdScan(SubSeq(lines, boundaries[1], boundaries[2]), macros))
    IN  Within(BoundariesOf(lines, class_name))

\* extract_id_fields on lines already read: the list of fields
IdFieldsOf(lines, class_name, macros) ==
    LET Fields(hits) == [n \in 1..Len(hits) |-> hits[n].field]
    IN  Fields(IdMarkersOf(lines, class_name, macros))

\* extract_id_fields(file_path, class_name): an unreadable file gives []
ExtractIdFields(fs, path, class_name, macros) ==
    IF ~CanRead(fs, path) THEN <<>>
    ELSE IdFieldsOf(ReadLines(fs, path), class_name, macros)

(***************************************************************************)
(* S7_extract_validation_fields                                            *)
(***************************************************************************)
string_types == <<"stdstring", "cstdstring", "std::string", "const std::string", "string">>

ContainsAny(s, needles) == \E n \in 1..Len(needles) : Contains(s, needles[n])

is_string_type(field_type) ==
    LET low == ToLower(Strip(field_type))
        inner == IF Contains(low, "optional<")
                 THEN extract_inner_type_from_optional(low)
                 ELSE low
    IN  ContainsAny(inner, string_types)

\* 'NotBlank' in function_name or 'NotEmpty' in function_name or 'String' in function_name
requires_string_type(function_name) ==
    \/ Contains(function_name, "NotBlank")
    \/ Contains(function_name, "NotEmpty")
    \/ Contains(function_name, "String")

\* re.search(rf'///\s*@{name}\b', s), name ending in a word character
DocMarkerSearch(s, name) ==
    \E i \in 1..Len(s) :
        /\ LitAt(s, i, "///")
        /\ LET j == Skip(s, i + 3, Space)
           IN  /\ LitAt(s, j, "@" \o name)
               /\ Ch(s, j + 1 + Len(name)) \notin IdentChar

\* the first macro of the table whose marker /// @Macro is on the line, "" if none
RECURSIVE DocMacroOn(_, _, _)
DocMacroOn(s, macros, n) ==
    IF n > Len(macros) THEN ""
    ELSE IF DocMarkerSearch(s, macros[n].macro) THEN macros[n].macro
    ELSE DocMacroOn(s, macros, n + 1)

fixed_markers == <<"NotNull", "NotEmpty", "NotBlank", "Id", "Entity", "Serializable">>

\* re.search(r'///\s*@(NotNull|NotEmpty|NotBlank|Id|Entity|Serializable)\b', s)
FixedMarkerSearch(s) == \E n \in 1..Len(fixed_markers) : DocMarkerSearch(s, fixed_markers[n])

\* r'^\s*(Dto|Serializable|COMPONENT|SCOPE|VALIDATE|///\s*@(...))\s*$' on a stripped line
ValidationStopLine(next_line) ==
    \/ AccessPatternSearch(next_line)
    \/ next_line \in {"Dto", "Serializable", "COMPONENT", "SCOPE", "VALIDATE"}
    \/ /\ StartsWith(next_line, "///")
       /\ \E n \in 1..Len(fixed_markers) :
              /\ LitAt(next_line, Skip(next_line, 4, Space), "@" \o fixed_markers[n])
              /\ Skip(next_line, 4, Space) + Len(fixed_markers[n]) = Len(next_line)

\* r'^\s*(?:Public|Private|Protected)?\s*(type)\s+(name)\s*[;=]'
FieldPatternS7(s) ==
    LET a == Skip(s, 1, Space)
        b == AccessKeywordAt(s, a)
        Or(first, second) == IF first # None THEN first ELSE second
    IN  IF b > 0 THEN Or(FieldFrom(s, Skip(s, b, Space)), FieldFrom(s, a))
        ELSE FieldFrom(s, a)

FunctionOf(macros, macro) ==
    LET n == CHOOSE n \in 1..Len(macros) : macros[n].macro = macro
    IN  macros[n].function

\* the look-ahead for j in range(i + 1, min(i + 11, len(class_lines))),
\* 1-based: the field the marker is bound to, or None
RECURSIVE ValidationLookAhead(_, _, _, _, _, _)
ValidationLookAhead(class_lines, macros, j, stop, function_name, access) ==
    IF j >= stop THEN None
    ELSE LET next_line == Strip(class_lines[j])
             skip == ValidationLookAhead(class_lines, macros, j + 1, stop, function_name, access)
             Field(m) ==
                 IF m # None
                 THEN IF /\ LooksLikeField(next_line, m.name)
                         /\ (requires_string_type(function_name) => is_string_type(m.type))
                      THEN [type |-> m.type, name |-> m.name, access |-> access,
                            function_name |-> function_name]
                      ELSE None
                 ELSE IF ValidationStopLine(next_line) THEN None
                 ELSE skip
         IN  IF StartsWith(next_line, "/*") THEN skip
             ELSE IF StartsWith(next_line, "//") /\ ~FixedMarkerSearch(next_line) THEN skip
             ELSE IF next_line = "" THEN skip
             ELSE IF DocMacroOn(next_line, macros, 1) # "" THEN skip
             ELSE Field(FieldPatternS7(next_line))

\* the while loop reaches its access-specifier branch at class line k
AccessLine(class_lines, macros, k) ==
    LET stripped == Strip(class_lines[k]) IN
    /\ ~StartsWith(stripped, "/*")
    /\ ~(StartsWith(stripped, "//") /\ DocMacroOn(stripped, macros, 1) = "")
    /\ stripped # ""
    /\ AccessPatternSearch(stripped)

\* access_match.group(1).lower()
AccessWord(stripped) ==
    CHOOSE w \in {"public", "private", "protected"} :
        LitAt(ToLower(stripped), Skip(stripped, 1, Space), w)

\* current_access when the loop is at class line i: set by the last
\* access-specifier line above it, "none" before the first
CurrentAccess(class_lines, macros, i) ==
    LET above == {k \in 1..(i - 1) : AccessLine(class_lines, macros, k)}
    IN  IF above = {} THEN "none" ELSE AccessWord(Strip(class_lines[Max(above)]))

\* the body of the while loop of extract_validation_fields at class line
\* i: the [macro, line, field] it appends, or None
ValidationOnLine(class_lines, macros, i) ==
    LET stripped == Strip(class_lines[i])
        Bound(macro) ==
            LET Entry(hit) == IF hit = None THEN None
                              ELSE [macro |-> macro, line |-> i, field |-> hit]
            IN  IF StartsWith(stripped, "/*") THEN None
                ELSE IF StartsWith(stripped, "//") /\ macro = "" THEN None
                ELSE IF stripped = "" THEN None
                ELSE IF AccessPatternSearch(stripped) THEN None
                ELSE IF macro = "" THEN None
                ELSE Entry(ValidationLookAhead(class_lines, macros, i + 1,
                               Min({i + 11, Len(class_lines) + 1}),
                               FunctionOf(macros, macro),
                               CurrentAccess(class_lines, macros, i)))
    IN  Bound(DocMacroOn(stripped, macros, 1))

\* the while loop: the hits in the order the loop appends them
ValidationScan(class_lines, macros) ==
    Found([i \in 1..Len(class_lines) |-> ValidationOnLine(class_lines, macros, i)])

\* the fields among hits that belong to one macro, in order
RECURSIVE FieldsOfMacro(_, _)
FieldsOfMacro(hits, macro) ==
    IF hits = <<>> THEN <<>>
    ELSE IF Head(hits).macro = macro
    THEN <<Head(hits).field>> \o FieldsOfMacro(Tail(hits), macro)
    ELSE FieldsOfMacro(Tail(hits), macro)

\* {k: v for k, v in result.items() if v} as a sequence of [macro, fields]
RECURSIVE GroupByMacro(_, _, _)
GroupByMacro(hits, macros, n) ==
    IF n > Len(macros) THEN <<>>
    ELSE LET fl == FieldsOfMacro(hits, macros[n].macro)
         IN  (IF fl = <<>> THEN <<>> ELSE <<[macro |-> macros[n].macro, fields |-> fl]>>)
             \o GroupByMacro(hits, macros, n + 1)

\* extract_validation_fields on lines already read
ValidationFieldsOf(lines, class_name, macros) ==
    LET Within(boundaries) ==
            IF boundaries = None \/ macros = <<>> THEN <<>>
            ELSE GroupByMacro(
                     ValidationScan(SubSeq(lines, boundaries[1], boundaries[2]), macros),
                     macros, 1)
    IN  Within(BoundariesOf(lines, class_name))

\* extract_validation_fields(file_path, class_name, validation_macros): the
\* read failure is passed over and find_class_boundaries then raises
ExtractValidationFields(fs, path, class_name, macros) ==
    IF ~CanRead(fs, path)
    THEN [raised |-> TRUE, by_macro |-> <<>>]
    ELSE [raised |-> FALSE,
          by_macro |-> ValidationFieldsOf(ReadLines(fs, path), class_name, macros)]

(***************************************************************************)
(* S3_inject_serialization: the code generators.  Generated code is kept   *)
(* as the sequence of its lines, i.e. the returned string split at "\n".   *)
(***************************************************************************)
primitive_types == <<"int", "Int", "CInt", "long", "Long", "CLong", "float", "Float",
                     "CFloat", "double", "Double", "CDouble", "bool", "Bool", "CBool",
                     "char", "Char", "CChar", "unsigned", "UInt", "CUInt", "short",
                     "Short", "CShort">>

\* any(prim in inner_type for prim in primitive_types)
is_primitive(inner_type) == ContainsAny(inner_type, primitive_types)

\* 'StdString' in inner_type or 'CStdString' in inner_type or 'string' in inner_type.lower()
is_string(inner_type) ==
    \/ Contains(inner_type, "StdString")
    \/ Contains(inner_type, "CStdString")
    \/ Contains(ToLower(inner_type), "string")

\* [field for field in fields if is_optional_type(field['type'].strip())]
RECURSIVE OptionalFields(_)
OptionalFields(fields) ==
    IF fields = <<>> THEN <<>>
    ELSE (IF is_optional_type(Head(fields).type) THEN <<Head(fields)>> ELSE <<>>)
         \o OptionalFields(Tail(fields))

\* seq1 ++ seq2 ++ ... for a sequence of sequences
RECURSIVE Flatten(_)
Flatten(seqs) == IF seqs = <<>> THEN <<>> ELSE Head(seqs) \o Flatten(Tail(seqs))

\* primary key methods written only when an @Id field was found
generate_primary_key_methods_when_found(class_name, id_fields) ==
    (IF Len(id_fields) > 0
     THEN << "    inline " \o id_fields[1].type \o " GetPrimaryKey() {",
             "        return " \o id_fields[1].name \o ";",
             "    }",
             "",
             "    inline Static StdString GetPrimaryKeyName() {",
             "        return \"" \o id_fields[1].name \o "\";",
             "    }" >>
     ELSE <<>>)
    \o << "",
          "    inline Static StdString GetTableName() {",
          "        return \"" \o class_name \o "\";",
          "    }" >>

generate_primary_key_methods(class_name, id_fields) ==
    (IF Len(id_fields) > 0
     THEN << "    inline " \o id_fields[1].type \o " GetPrimaryKey() {",
             "        return " \o id_fields[1].name \o ";",
             "    }",
             "",
             "    inline Static StdString GetPrimaryKeyName() {",
             "        return \"" \o id_fields[1].name \o "\";",
             "    }" >>
     ELSE << "    inline int GetPrimaryKey() {",
             "        return 0;",
             "    }",
             "",
             "    inline Static StdString GetPrimaryKeyName() {",
             "        return \"\";",
             "    }" >>)
    \o << "",
          "    inline Static StdString GetTableName() {",
          "        return \"" \o class_name \o "\";",
          "    }" >>

\* the lines Serialize() gets for one optional field
SerializeField(field) ==
    LET f == field.name
        inner == extract_inner_type_from_optional(Strip(field.type))
    IN  << "        // Serialize optional field: " \o f,
           "        if (" \o f \o ".has_value()) {" >>
        \o (IF is_string(inner)
            THEN << "            doc[\"" \o f \o "\"] = " \o f \o ".value().c_str();" >>
            ELSE IF is_primitive(inner)
            THEN << "            doc[\"" \o f \o "\"] = " \o f \o ".value();" >>
            ELSE << "            // Serialize nested object or enum: " \o f,
                    "            // SerializeValue will use template specialization for enums (returns string like \"Off\")",
                    "            // or call .Serialize() for complex objects (returns JSON string)",
                    "            StdString " \o f \o "_json = nayan::serializer::SerializeValue(" \o f \o ".value());",
                    "            // Try to parse as JSON object (for complex objects)",
                    "            JsonDocument " \o f \o "_doc;",
                    "            DeserializationError " \o f \o "_error = deserializeJson(" \o f \o "_doc, " \o f \o "_json.c_str());",
                    "            if (" \o f \o "_error == DeserializationError::Ok && " \o f \o "_doc.is<JsonObject>()) {",
                    "                // Complex object - add parsed JSON object",
                    "                doc[\"" \o f \o "\"] = " \o f \o "_doc.as<JsonObject>();",
                    "            } else {",
                    "                // Enum (serialized as plain string like \"Off\" or \"On\") - add directly as string value",
                    "                // This ensures enums are stored as strings, not integers",
                    "                doc[\"" \o f \o "\"] = " \o f \o "_json.c_str();",
                    "            }" >>)
        \o << "        } else {",
              "            doc[\"" \o f \o "\"] = nullptr;",
              "        }" >>

\* the lines ValidateFields() gets for one field of one macro
ValidateField(macro_name, field) ==
    LET f == field.name
        t == Strip(field.type)
        inner == extract_inner_type_from_optional(t)
        is_nested_object == is_optional_type(t) /\ ~is_primitive(inner) /\ ~is_string(inner)
        qualified == IF StartsWith(field.function_name, "nayan::")
                     THEN field.function_name
                     ELSE "nayan::validation::" \o field.function_name
    IN  (IF is_nested_object /\ inner # ""
         THEN << "        // First validate nested object: " \o f,
                 "        if (!doc[\"" \o f \o "\"].isNull()) {",
                 "            // Extract nested object and convert to JsonDocument for validation",
                 "            JsonObject " \o f \o "_obj = doc[\"" \o f \o "\"].template as<JsonObject>();",
                 "            JsonDocument " \o f \o "_doc;",
                 "            // Copy the JsonObject into JsonDocument",
                 "            " \o f \o "_doc.set(" \o f \o "_obj);",
                 "            // Validate nested object's fields",
                 "            StdString " \o f \o "_nested_errors = " \o inner \o "::ValidateFields(" \o f \o "_doc);",
                 "            if (!" \o f \o "_nested_errors.empty()) {",
                 "                if (!validationErrors.empty()) validationErrors += \",\\n\";",
                 "                validationErrors += \"Validation errors in nested object '" \o f \o "': \";",
                 "                validationErrors += " \o f \o "_nested_errors;",
                 "            }",
                 "        }",
                 "" >>
         ELSE <<>>)
        \o << "        // Validate " \o macro_name \o " field: " \o f,
              "        " \o qualified \o "(doc, \"" \o f \o "\", validationErrors);" >>

ValidateMacro(entry) ==
    Flatten([n \in 1..Len(entry.fields) |-> ValidateField(entry.macro, entry.fields[n])])

\* the macros of the table that list a field of this name, joined with "+"
RECURSIVE ValidationDesc(_, _)
ValidationDesc(by_macro, name) ==
    IF by_macro = <<>> THEN ""
    ELSE LET here == \E n \in 1..Len(Head(by_macro).fields) :
                         Head(by_macro).fields[n].name = name
             rest == ValidationDesc(Tail(by_macro), name)
         IN  IF ~here THEN rest
             ELSE IF rest = "" THEN Head(by_macro).macro
             ELSE Head(by_macro).macro \o "+" \o rest

\* the as<...>() assignment of a primitive field, ind being the indentation
PrimitiveAssign(ind, f, inner) ==
    LET low == ToLower(inner)
        as == IF Contains(low, "bool") \/ Contains(inner, "Bool") THEN "bool"
              ELSE IF Contains(low, "int") \/ Contains(inner, "Int") THEN "int"
              ELSE IF Contains(low, "float") \/ Contains(inner, "Float") THEN "float"
              ELSE IF Contains(low, "double") \/ Contains(inner, "Double") THEN "double"
              ELSE IF Contains(low, "char") \/ Contains(inner, "Char") THEN "char"
              ELSE inner
    IN  << ind \o "obj." \o f \o " = doc[\"" \o f \o "\"].as<" \o as \o ">();" >>

\* the value-reading lines of Deserialize() for one field at indentation ind
DeserializeValueLines(ind, f, inner) ==
    IF is_string(inner)
    THEN << ind \o "obj." \o f \o " = StdString(doc[\"" \o f \o "\"].as<const char*>());" >>
    ELSE IF is_primitive(inner)
    THEN PrimitiveAssign(ind, f, inner)
    ELSE << ind \o "// Deserialize nested object or enum: " \o f,
            ind \o "StdString " \o f \o "_json;",
            ind \o "if (doc[\"" \o f \o "\"].is<const char*>()) {",
            ind \o "    // Enum or string value - extract directly",
            ind \o "    " \o f \o "_json = StdString(doc[\"" \o f \o "\"].as<const char*>());",
            ind \o "} else {",
            ind \o "    // Complex object - serialize to JSON string",
            ind \o "    JsonObject " \o f \o "_obj = doc[\"" \o f \o "\"].as<JsonObject>();",
            ind \o "    serializeJson(" \o f \o "_obj, " \o f \o "_json);",
            ind \o "}",
            ind \o "obj." \o f \o " = nayan::serializer::DeserializeValue<" \o inner \o ">(" \o f \o "_json);" >>

\* the lines Deserialize() gets for one optional field
DeserializeField(field, by_macro) ==
    LET f == field.name
        inner == extract_inner_type_from_optional(Strip(field.type))
        desc == ValidationDesc(by_macro, f)
    IN  IF desc # ""
        THEN << "        // Deserialize " \o desc \o " field: " \o f \o " (already validated)" >>
             \o DeserializeValueLines("        ", f, inner)
        ELSE << "        // Deserialize optional field: " \o f,
                "        if (!doc[\"" \o f \o "\"].isNull()) {" >>
             \o DeserializeValueLines("            ", f, inner)
             \o << "        }" >>

generate_serialization_methods(class_name, fields, validation_fields_by_macro, id_fields) ==
    LET optional_fields == OptionalFields(fields) IN
    << "    // Serialization method",
       "    Public StdString Serialize() const {",
       "        // Create JSON document",
       "        JsonDocument doc;",
       "" >>
    \o (IF optional_fields = <<>>
        THEN << "        // No optional fields to serialize" >>
        ELSE Flatten([n \in 1..Len(optional_fields) |-> SerializeField(optional_fields[n])]))
    \o << "",
          "        // Serialize to string",
          "        StdString output;",
          "        serializeJson(doc, output);",
          "",
          "        return StdString(output.c_str());",
          "    }",
          "",
          "        // Validation method for all validation macros",
          "        #pragma GCC diagnostic push",
          "        #pragma GCC diagnostic ignored \"-Wunused-parameter\"",
          "        Public template<typename DocType>",
          "        Static StdString ValidateFields(DocType& doc) {",
          "        StdString validationErrors;",
          "" >>
    \o (IF validation_fields_by_macro # <<>>
        THEN Flatten([n \in 1..Len(validation_fields_by_macro) |->
                         ValidateMacro(validation_fields_by_macro[n])])
        ELSE << "        // No validation macros defined for this class" >>)
    \o << "",
          "        return validationErrors;",
          "    }",
          "        #pragma GCC diagnostic pop",
          "",
          "    // Deserialization method",
          "    Public Static " \o class_name \o " Deserialize(const StdString& input) {",
          "        // Create JSON document",
          "        JsonDocument doc;",
          "",
          "        // Deserialize JSON string",
          "        DeserializationError error = deserializeJson(doc, input.c_str());",
          "",
          "        if (error) {",
          "            StdString errorMsg = \"JSON parse error: \";",
          "            errorMsg += error.c_str();",
          "            throw std::runtime_error(errorMsg.c_str());",
          "        }",
          "",
          "        // Validate all fields with validation macros",
          "        StdString validationErrors = ValidateFields(doc);",
          "        if (!validationErrors.empty()) {",
          "            throw std::runtime_error(validationErrors.c_str());",
          "        }",
          "",
          "        // Create object with default constructor",
          "        " \o class_name \o " obj;",
          "",
          "        // Assign values from JSON if present (only optional fields)" >>
    \o (IF optional_fields = <<>>
        THEN << "        // No optional fields to deserialize" >>
        ELSE Flatten([n \in 1..Len(optional_fields) |->
                         DeserializeField(optional_fields[n], validation_fields_by_macro)]))
    \o << "",
          "        return obj;",
          "    }",
          "",
          "    // Primary key methods" >>
    \o generate_primary_key_methods(class_name, id_fields)

(***************************************************************************)
(* S3_inject_serialization: the functions that rewrite a header            *)
(***************************************************************************)
\* str.replace(c, '') for every character c of the set cs
RECURSIVE RemoveChars(_, _)
RemoveChars(s, cs) ==
    IF s = "" THEN ""
    ELSE (IF Ch(s, 1) \in cs THEN "" ELSE Ch(s, 1)) \o RemoveChars(From(s, 2), cs)

\* check_include_exists(file_path, include_pattern); False on a read error
check_include_exists(fs, path, include_pattern) ==
    IF ~CanRead(fs, path) THEN FALSE
    ELSE LET content == Join(ReadLines(fs, path)) IN
         \/ Contains(content, include_pattern)
         \/ Contains(content, "<" \o include_pattern \o ">")
         \/ Contains(content, "\"" \o include_pattern \o "\"")

\* index of the last line whose stripped text starts with #include, 0 if none
LastIncludeIdx(lines) ==
    LET hits == {i \in 1..Len(lines) : StartsWith(Strip(lines[i]), "#include")}
    IN  IF hits = {} THEN 0 ELSE Max(hits)

\* index of the first header-guard #define line, 0 if none
GuardDefineIdx(lines) ==
    LET hits == {i \in 1..Len(lines) : /\ StartsWith(Strip(lines[i]), "#define")
                                       /\ Contains(lines[i], "_H")}
    IN  IF hits = {} THEN 0 ELSE Min(hits)

\* lines.insert(at, line): line becomes element at + 1
InsertAfter(lines, at, line) ==
    SubSeq(lines, 1, at) \o <<line>> \o SubSeq(lines, at + 1, Len(lines))

\* the lines add_include_if_needed writes back
WithInclude(lines, include_path) ==
    LET inc == "#include " \o include_path \o "\n" IN
    IF LastIncludeIdx(lines) > 0 THEN InsertAfter(lines, LastIncludeIdx(lines), inc)
    ELSE IF GuardDefineIdx(lines) > 0 THEN InsertAfter(lines, GuardDefineIdx(lines), inc)
    ELSE lines

\* add_include_if_needed(file_path, include_path): the file system it leaves
\* and its result (None, kept as FALSE, when the file cannot be read)
add_include_if_needed(fs, path, include_path) ==
    IF check_include_exists(fs, path, RemoveChars(include_path, {"<", ">", "\""}))
    THEN [ret |-> TRUE, fs |-> fs]
    ELSE IF ~CanRead(fs, path) THEN [ret |-> FALSE, fs |-> fs]
    ELSE [ret |-> TRUE,
          fs  |-> [fs EXCEPT ![path] = WriteLines(WithInclude(ReadLines(fs, path), include_path))]]

\* re.match(rf'^/\*--\s*{name}\s*--\*/\s*$', stripped_line)
ProcessedLineMatch(stripped_line, name) ==
    DelimitedAt(stripped_line, 1, "/*--", name, "--*/") = Len(stripped_line) + 1

\* re.match(rf'^/\*\s*{name}\s*\*/\s*$', stripped_line)
AnnotationLineMatch(stripped_line, name) ==
    DelimitedAt(stripped_line, 1, "/*", name, "*/") = Len(stripped_line) + 1

\* the line mark_dto_annotation_processed appends for one line of the file
MarkedLine(line, name, dry_run) ==
    LET stripped_line == Strip(line) IN
    IF ProcessedLineMatch(stripped_line, name) THEN line
    ELSE IF AnnotationLineMatch(stripped_line, name) /\ ~dry_run
    THEN (IF StartsWith(line, " ") THEN Spaces(LeadingWs(line)) ELSE "")
         \o "/*--" \o name \o "--*/\n"
    ELSE line

\* mark_dto_annotation_processed(file_path, dry_run, serializable_annotation)
mark_dto_annotation_processed(fs, path, dry_run, serializable_annotation) ==
    IF ~CanRead(fs, path) THEN [ret |-> FALSE, fs |-> fs]
    ELSE LET lines == ReadLines(fs, path)
             name == AnnotationName(serializable_annotation)
             modified == \E i \in 1..Len(lines) :
                             /\ ~ProcessedLineMatch(Strip(lines[i]), name)
                             /\ AnnotationLineMatch(Strip(lines[i]), name)
             modified_lines == [i \in 1..Len(lines) |-> MarkedLine(lines[i], name, dry_run)]
         IN  [ret |-> TRUE,
              fs  |-> IF modified /\ ~dry_run
                      THEN [fs EXCEPT ![path] = WriteLines(modified_lines)]
                      ELSE fs]

comment_dto_macro(fs, path, dry_run, serializable_macro) ==
    mark_dto_annotation_processed(fs, path, dry_run, serializable_macro)

\* the guard of inject_methods_into_class on the text of the span
AlreadyInjected(lines, span) ==
    LET class_content == Join(SubSeq(lines, span[1], span[2])) IN
    /\ Contains(class_content, "Serialize()")
    /\ Contains(class_content, "Deserialize(")
    /\ Contains(class_content, "GetPrimaryKey()")

\* insert_idx: the number of lines that stay in front of the inserted ones
InsertIdx(lines, span) ==
    LET start_line == span[1]
        closing_line_idx == span[2] - 1
        code == {i \in start_line..closing_line_idx :
                    LET line == Strip(lines[i]) IN
                    line # "" /\ ~StartsWith(line, "//") /\ ~StartsWith(line, "/*")}
    IN  IF code = {} THEN closing_line_idx ELSE Max(code)

\* the indentation given to the inserted lines
IndentAt(lines, insert_idx) ==
    IF insert_idx > 0 /\ lines[insert_idx] # "" /\ LeadingWs(lines[insert_idx]) > 0
    THEN SubSeq(lines[insert_idx], 1, LeadingWs(lines[insert_idx]))
    ELSE "    "

\* ['\n'] + indented_methods
InsertedLines(lines, insert_idx, methods_lines) ==
    <<"\n">> \o [n \in 1..Len(methods_lines) |->
                    IF Strip(methods_lines[n]) # ""
                    THEN IndentAt(lines, insert_idx) \o methods_lines[n] \o "\n"
                    ELSE "\n"]

\* inject_methods_into_class(file_path, class_name, methods_code, dry_run);
\* methods_lines is methods_code.split('\n')
inject_methods_into_class(fs, path, class_name, methods_lines, dry_run) ==
    IF ~CanRead(fs, path) THEN [ret |-> FALSE, fs |-> fs]
    ELSE LET Inject(lines) ==
                 LET Splice(insert_idx) ==
                         SubSeq(lines, 1, insert_idx)
                         \o InsertedLines(lines, insert_idx, methods_lines)
                         \o SubSeq(lines, insert_idx + 1, Len(lines))
                     Within(boundaries) ==
                         IF boundaries = None THEN [ret |-> FALSE, fs |-> fs]
                         ELSE IF AlreadyInjected(lines, boundaries) THEN [ret |-> TRUE, fs |-> fs]
                         ELSE IF dry_run THEN [ret |-> TRUE, fs |-> fs]
                         ELSE [ret |-> TRUE,
                               fs |-> [fs EXCEPT ![path] =
                                          WriteLines(Splice(InsertIdx(lines, boundaries)))]]
                 IN  Within(BoundariesOf(lines, class_name))
         IN  Inject(ReadLines(fs, path))

(***************************************************************************)
(* 00_process_serializable_classes.process_all_serializable_classes        *)
(***************************************************************************)
\* the table find_validation_macro_definitions(None) builds from the
\* `#define <Macro> /* Validation Function -> <Function> */` lines of the
\* library headers
validation_macros == << [macro |-> "NotNull", function |-> "ValidateNotNull"],
                        [macro |-> "NotEmpty", function |-> "ValidateNotEmpty"] >>

\* the end of one pass: the annotation is marked when the methods went in
MarkInjected(inj, file_path, dry_run, serializable_macro) ==
    [raised |-> FALSE, processed |-> inj.ret,
     fs |-> IF inj.ret /\ ~dry_run
            THEN comment_dto_macro(inj.fs, file_path, FALSE, serializable_macro).fs
            ELSE inj.fs]

\* the pass from the fields of the class on: the include, the generated
\* methods, their injection and the mark
InjectGenerated(fs, file_path, dry_run, serializable_macro, class_name, fields) ==
    MarkInjected(inject_methods_into_class(
                     IF ~dry_run /\ OptionalFields(fields) # <<>>
                     THEN add_include_if_needed(fs, file_path, "<optional>").fs
                     ELSE fs,
                     file_path, class_name,
                     generate_serialization_methods(
                         class_name, fields,
                         ExtractValidationFields(fs, file_path, class_name,
                                                 validation_macros).by_macro,
                         ExtractIdFields(fs, file_path, class_name, validation_macros)),
                     dry_run),
                 file_path, dry_run, serializable_macro)

\* the pass from the result of check_dto_macro on
ProcessChecked(fs, file_path, dry_run, serializable_macro, dto) ==
    IF dto.raised
    THEN [raised |-> TRUE, processed |-> FALSE, fs |-> fs]
    ELSE IF ~dto.info.has_dto
    THEN [raised |-> FALSE, processed |-> FALSE, fs |-> fs]
    ELSE InjectGenerated(fs, file_path, dry_run, serializable_macro, dto.info.class_name,
                         ExtractAllFields(fs, file_path, dto.info.class_name).fields)

\* one pass of the for loop over header_files (S8_handle_enum_serialization
\* is None: arduinolib1 is not installed).  raised: an exception left the
\* loop body; processed: processed_count was incremented
ProcessHeader(fs, file_path, dry_run, serializable_macro) ==
    IF ~fs[file_path].exists
    THEN [raised |-> FALSE, processed |-> FALSE, fs |-> fs]
    ELSE ProcessChecked(fs, file_path, dry_run, serializable_macro,
                        CheckDtoAnnotation(fs, file_path, serializable_macro))

\* the for loop from header_files[k] on: an exception ends the whole call
RECURSIVE ProcessHeaders(_, _, _, _, _, _)
ProcessHeaders(fs, header_files, k, dry_run, serializable_macro, processed_count) ==
    LET Continue(r) ==
            IF r.raised
            THEN [raised |-> TRUE, ret |-> 0, fs |-> r.fs]
            ELSE ProcessHeaders(r.fs, header_files, k + 1, dry_run, serializable_macro,
                                processed_count + (IF r.processed THEN 1 ELSE 0))
    IN  IF k > Len(header_files)
        THEN [raised |-> FALSE, ret |-> processed_count, fs |-> fs]
        ELSE Continue(ProcessHeader(fs, header_files[k], dry_run, serializable_macro))

process_all_serializable_classes(fs, header_files, dry_run, serializable_macro) ==
    IF header_files = <<>> THEN [raised |-> FALSE, ret |-> 0, fs |-> fs]
    ELSE ProcessHeaders(fs, header_files, 1, dry_run, serializable_macro, 0)

(***************************************************************************)
(* repository/detect_repository                                            *)
(***************************************************************************)
\* file.read(): the whole text with "\n" line breaks
ReadContent(fs, path) == Join(ReadLines(fs, path))

\* the file that open(path, 'w') and file.write(content) leave behind
WriteContent(content) == WriteLines(SplitLines(content))

\* re.sub(r'//.*?$', '', line, flags=re.MULTILINE) on one line of the text
CutLineComment(line) ==
    LET hits == {i \in 1..Len(line) : LitAt(line, i, "//")} IN
    IF hits = {} THEN line
    ELSE SubSeq(line, 1, Min(hits) - 1) \o (IF EndsWith(line, "\n") THEN "\n" ELSE "")

\* re.sub(r'/\*.*?\*/', '', content, flags=re.DOTALL)
RECURSIVE CutBlockComments(_)
CutBlockComments(content) ==
    LET opens == {i \in 1..Len(content) : LitAt(content, i, "/*")} IN
    IF opens = {} THEN content
    ELSE LET closes == {j \in (Min(opens) + 2)..Len(content) : LitAt(content, j, "*/")} IN
         IF closes = {} THEN content
         ELSE SubSeq(content, 1, Min(opens) - 1)
              \o CutBlockComments(From(content, Min(closes) + 2))

remove_comments(content) ==
    LET lines == SplitLines(content) IN
    CutBlockComments(Join([k \in 1..Len(lines) |-> CutLineComment(lines[k])]))

\* re.search(r'///\s*@Repository\b', content)
RepositoryMarkerSearch(content) ==
    \E i \in 1..Len(content) :
        /\ LitAt(content, i, "///")
        /\ LET j == Skip(content, i + 3, Space) IN
           LitAt(content, j, "@Repository") /\ Ch(content, j + 11) \notin IdentChar

\* re.search(r'/\*\s*@Repository\s*\*/', content)
RepositoryProcessedSearch(content) == AnnotationSearch(content, "@Repository")

find_repository_annotation(content) ==
    IF RepositoryMarkerSearch(content)
    THEN ~RepositoryProcessedSearch(content)
    ELSE FALSE

\* r'DefineStandardPointers\s*\(\s*(\w+)\s*\)' matched at position i: the
\* captured name, "" when there is no match
DefinePointersAt(content, i) ==
    IF ~LitAt(content, i, "DefineStandardPointers") THEN ""
    ELSE LET j == Skip(content, i + 22, Space) IN
         IF Ch(content, j) # "(" THEN ""
         ELSE LET k == Skip(content, j + 1, Space)
                  e == Skip(content, k, IdentChar)
              IN  IF e > k /\ Ch(content, Skip(content, e, Space)) = ")"
                  THEN SubSeq(content, k, e - 1)
                  ELSE ""

\* extract_class_name_from_define_standard_pointers(content), "" for None
extract_class_name_from_define_standard_pointers(content) ==
    LET hits == {i \in 1..Len(content) : DefinePointersAt(content, i) # ""}
    IN  IF hits = {} THEN "" ELSE DefinePointersAt(content, Min(hits))

\* the position after  word \s+  at position i, or i itself when the
\* optional group (?:word\s+)? matches nothing there
OptionalWord(content, i, word) ==
    IF LitAt(content, i, word) /\ Ch(content, i + Len(word)) \in Space
    THEN Skip(content, i + Len(word), Space)
    ELSE i

\* ([^,<>]+) followed by the delimiter close, from position i: the
\* captured text and the position after the delimiter, or None
TemplateArgAt(content, i, close) ==
    LET e == Skip(content, i, {Ch(content, n) : n \in i..Len(content)} \ {",", "<", ">"})
    IN  IF e > i /\ Ch(content, e) = close
        THEN [text |-> Strip(SubSeq(content, i, e - 1)), next |-> e + 1]
        ELSE None

\* the class pattern of extract_cpaRepository_info matched at position i:
\* (type1, type2) or None
CpaRepositoryAt(content, class_name, i) ==
    IF ~(LitAt(content, i, "class") /\ Ch(content, i + 5) \in Space) THEN None
    ELSE LET n == Skip(content, i + 5, Space) IN
    IF ~(LitAt(content, n, class_name) /\ Ch(content, n + Len(class_name)) \in Space) THEN None
    ELSE LET c == OptionalWord(content, Skip(content, n + Len(class_name), Space), "final") IN
    IF Ch(content, c) # ":" THEN None
    ELSE LET q == Skip(content, c + 1, Space) IN
    IF ~(LitAt(content, q, "public") /\ Ch(content, q + 6) \in Space) THEN None
    ELSE LET r == OptionalWord(content, Skip(content, q + 6, Space), "virtual") IN
    IF ~LitAt(content, r, "CpaRepository") THEN None
    ELSE LET a == Skip(content, r + 13, Space) IN
    IF Ch(content, a) # "<" THEN None
    ELSE LET t1 == TemplateArgAt(content, a + 1, ",") IN
    IF t1 = None THEN None
    ELSE LET t2 == TemplateArgAt(content, t1.next, ">") IN
    IF t2 = None THEN None
    ELSE <<t1.text, t2.text>>

\* extract_cpaRepository_info(content, class_name): (type1, type2) or None
extract_cpaRepository_info(content, class_name) ==
    LET First(hits) ==
            IF hits = {} THEN None ELSE CpaRepositoryAt(content, class_name, Min(hits))
    IN  First({i \in 1..Len(content) : CpaRepositoryAt(content, class_name, i) # None})

\* rf'template\s*<\s*[^>]+\s*>\s*class\s+{class_name}' matched at position i
TemplateClassAt(content, class_name, i) ==
    /\ LitAt(content, i, "template")
    /\ LET a == Skip(content, i + 8, Space) IN
       /\ Ch(content, a) = "<"
       /\ LET e == Skip(content, a + 1, {Ch(content, n) : n \in 1..Len(content)} \ {">"}) IN
          /\ e > a + 1
          /\ Ch(content, e) = ">"
          /\ LET c == Skip(content, e + 1, Space) IN
             /\ LitAt(content, c, "class")
             /\ Ch(content, c + 5) \in Space
             /\ LitAt(content, Skip(content, c + 5, Space), class_name)

\* the template search on text that has its comments removed already
TemplateClassSearch(content_no_comments, class_name) ==
    \E i \in 1..Len(content_no_comments) : TemplateClassAt(content_no_comments, class_name, i)

is_class_templated(content, class_name) ==
    TemplateClassSearch(remove_comments(content), class_name)

\* detect_repository on the text read: [class_name, entity_type, id_type,
\* is_templated] or None
DetectIn(content) ==
    LET Named(class_name) ==
            LET Typed(template_params) ==
                    IF template_params = None THEN None
                    ELSE [class_name |-> class_name, entity_type |-> template_params[1],
                          id_type |-> template_params[2],
                          is_templated |-> is_class_templated(content, class_name)]
            IN  IF class_name = "" THEN None
                ELSE Typed(extract_cpaRepository_info(remove_comments(content), class_name))
    IN  IF ~find_repository_annotation(content) THEN None
        ELSE Named(extract_class_name_from_define_standard_pointers(content))

\* detect_repository(file_path): None when the file cannot be read
detect_repository(fs, file_path) ==
    IF ~CanRead(fs, file_path) THEN None ELSE DetectIn(ReadContent(fs, file_path))

(***************************************************************************)
(* repository/extract_method_action, repository/extract_findby_variable_name *)
(* An Optional[str] is kept as a sequence: <<>> for None, <<s>> for s.     *)
(***************************************************************************)
Some(s) == <<s>>

STANDARD_ACTIONS == <<"Find", "Delete", "Save", "Update", "Exists", "Count">>

\* re.match(r'^([A-Z][a-z]+)By', method_name): the group, None without a match
ActionByMatch(method_name) ==
    LET Group(e) ==
            IF Ch(method_name, 1) \in Upper /\ e > 2 /\ LitAt(method_name, e, "By")
            THEN Some(SubSeq(method_name, 1, e - 1))
            ELSE None
    IN  Group(Skip(method_name, 2, Lower))

\* the loop over STANDARD_ACTIONS: the first action the name equals, alone
\* or followed by All or ById
RECURSIVE StandaloneAction(_, _)
StandaloneAction(method_name, n) ==
    IF n > Len(STANDARD_ACTIONS) THEN None
    ELSE IF method_name \in {STANDARD_ACTIONS[n], STANDARD_ACTIONS[n] \o "All",
                             STANDARD_ACTIONS[n] \o "ById"}
    THEN Some(STANDARD_ACTIONS[n])
    ELSE StandaloneAction(method_name, n + 1)

\* extract_method_action that knows the <Action>By... names only
extract_method_action_by_only(method_name) ==
    LET By(match) ==
            IF match # None /\ \E n \in 1..Len(STANDARD_ACTIONS) : match[1] = STANDARD_ACTIONS[n]
            THEN match
            ELSE None
    IN  IF method_name = "" THEN None ELSE By(ActionByMatch(method_name))

extract_method_action(method_name) ==
    LET By(match) ==
            IF match # None /\ \E n \in 1..Len(STANDARD_ACTIONS) : match[1] = STANDARD_ACTIONS[n]
            THEN match
            ELSE StandaloneAction(method_name, 1)
    IN  IF method_name = "" THEN None ELSE By(ActionByMatch(method_name))

pascal_to_camel(pascal_case) ==
    IF pascal_case = "" THEN ""
    ELSE IF Ch(pascal_case, 1) \in Upper
    THEN LowerOf(Ch(pascal_case, 1)) \o From(pascal_case, 2)
    ELSE pascal_case

\* the character class [A-Za-z0-9_<>:&*,\s] of a return type
ReturnTypeChar == IdentChar \cup {"<", ">", ":", "&", "*", ","} \cup Space

\* the pattern of extract_method_name_from_declaration matched so that its
\* final \( is the character at p: <<first, last>> position of the captured
\* name, or None.  The name is the identifier in front of the parenthesis;
\* in front of it stand whitespace and a return type of two characters or
\* more that starts with a letter or an underscore.
DeclarationAt(s, p) ==
    LET Name(e) ==
            LET Starts(n) ==
                    IF /\ n > 0
                       /\ Ch(s, n) \in IdentStart
                       /\ Ch(s, n - 1) \in Space
                       /\ \E a \in 1..n - 3 :
                              /\ Ch(s, a) \in IdentStart
                              /\ \A j \in a..n - 1 : Ch(s, j) \in ReturnTypeChar
                    THEN <<n, e>>
                    ELSE None
                runs == {n \in 1..e : \A j \in n..e : Ch(s, j) \in IdentChar}
            IN  Starts(IF runs = {} THEN 0 ELSE Min(runs))
    IN  IF Ch(s, p) = "(" THEN Name(SkipBack(s, p - 1)) ELSE None

\* re.search: the match that starts leftmost is the one of the first
\* parenthesis that closes a match
extract_method_name_from_declaration(method_declaration) ==
    LET ends == {p \in 1..Len(method_declaration) :
                    DeclarationAt(method_declaration, p) # None}
        Group(m) == Some(SubSeq(method_declaration, m[1], m[2]))
    IN  IF ends = {} THEN None ELSE Group(DeclarationAt(method_declaration, Min(ends)))

\* re.match(r'^FindBy(.+)$', method_name, re.IGNORECASE): the group
FindByMatch(method_name) ==
    IF /\ Len(method_name) > 6
       /\ ToLower(SubSeq(method_name, 1, 6)) = "findby"
       /\ ~Contains(From(method_name, 7), "\n")
    THEN Some(From(method_name, 7))
    ELSE None

extract_findby_variable_name(method_input) ==
    LET Variable(match) == IF match = None THEN None ELSE Some(pascal_to_camel(match[1]))
        Named(method_name) ==
            Variable(FindByMatch(IF method_name = None \/ method_name = Some("")
                                 THEN Strip(method_input)
                                 ELSE method_name[1]))
    IN  IF method_input = "" THEN None
        ELSE Named(extract_method_name_from_declaration(method_input))

(***************************************************************************)
(* repository/implement_repository                                         *)
(***************************************************************************)
\* str.upper() on one character
UpperOf(c) ==
    CASE c = "a" -> "A" [] c = "b" -> "B" [] c = "c" -> "C" [] c = "d" -> "D"
      [] c = "e" -> "E" [] c = "f" -> "F" [] c = "g" -> "G" [] c = "h" -> "H"
      [] c = "i" -> "I" [] c = "j" -> "J" [] c = "k" -> "K" [] c = "l" -> "L"
      [] c = "m" -> "M" [] c = "n" -> "N" [] c = "o" -> "O" [] c = "p" -> "P"
      [] c = "q" -> "Q" [] c = "r" -> "R" [] c = "s" -> "S" [] c = "t" -> "T"
      [] c = "u" -> "U" [] c = "v" -> "V" [] c = "w" -> "W" [] c = "x" -> "X"
      [] c = "y" -> "Y" [] c = "z" -> "Z" [] OTHER -> c

RECURSIVE ToUpper(_)
ToUpper(s) == IF s = "" THEN "" ELSE UpperOf(Ch(s, 1)) \o ToUpper(From(s, 2))

\* <library_dir>/src/repository/<class_name>Impl.h
ImplPath(library_dir, class_name) ==
    library_dir \o "/src/repository/" \o class_name \o "Impl.h"

\* the element of a set of one element: a value computed once
TheOne(S) == CHOOSE x \in S : TRUE

\* content.split('\n')
SplitNl(content) ==
    LET nl == SelectSeq([i \in 1..Len(content) |-> i], LAMBDA i : Ch(content, i) = "\n")
    IN  [k \in 1..(Len(nl) + 1) |->
            SubSeq(content, (IF k = 1 THEN 1 ELSE nl[k - 1] + 1),
                            (IF k > Len(nl) THEN Len(content) ELSE nl[k] - 1))]

\* the class pattern of extract_class_content and get_method_declaration
\* matched at position i: <<first, last>> position of the class body, None
\* without a match
RepositoryClassAt(content, class_name, i) ==
    LET Ends(b, ends) == IF ends = {} THEN None ELSE <<b + 1, Min(ends) - 1>>
        Brace(b) ==
            IF Ch(content, b) # "{" THEN None
            ELSE Ends(b, {t \in (b + 1)..Len(content) : LitAt(content, t, "};")})
        Arguments(a, e) ==
            IF ~(e > a + 1 /\ Ch(content, e) = ">") THEN None
            ELSE Brace(Skip(content, e + 1, Space))
        Angle(a) ==
            IF Ch(content, a) # "<" THEN None
            ELSE Arguments(a, Skip(content, a + 1,
                                   {Ch(content, k) : k \in a..Len(content)} \ {">"}))
        Base(r) ==
            IF ~LitAt(content, r, "CpaRepository") THEN None
            ELSE Angle(Skip(content, r + 13, Space))
        Inherits(q) ==
            IF ~(LitAt(content, q, "public") /\ Ch(content, q + 6) \in Space) THEN None
            ELSE Base(OptionalWord(content, Skip(content, q + 6, Space), "virtual"))
        Colon(c) ==
            IF Ch(content, c) # ":" THEN None ELSE Inherits(Skip(content, c + 1, Space))
        Name(n) ==
            IF ~(LitAt(content, n, class_name) /\ Ch(content, n + Len(class_name)) \in Space)
            THEN None
            ELSE Colon(OptionalWord(content, Skip(content, n + Len(class_name), Space),
                                    "final"))
    IN  IF ~(LitAt(content, i, "class") /\ Ch(content, i + 5) \in Space) THEN None
        ELSE Name(Skip(content, i + 5, Space))

\* rf'class\s+{class_name}\s*(?:final\s+)?{(.*?)};' matched at position i
PlainClassAt(content, class_name, i) ==
    LET Ends(b, ends) == IF ends = {} THEN None ELSE <<b + 1, Min(ends) - 1>>
        Brace(b) ==
            IF Ch(content, b) # "{" THEN None
            ELSE Ends(b, {t \in (b + 1)..Len(content) : LitAt(content, t, "};")})
        Name(n) ==
            IF ~LitAt(content, n, class_name) THEN None
            ELSE Brace(OptionalWord(content, Skip(content, n + Len(class_name), Space),
                                    "final"))
    IN  IF ~(LitAt(content, i, "class") /\ Ch(content, i + 5) \in Space) THEN None
        ELSE Name(Skip(content, i + 5, Space))

\* the body of the repository class in text without comments: Some(body),
\* None when the class pattern matches nowhere
RepositoryClassBody(content_no_comments, class_name) ==
    LET Span(m) == Some(SubSeq(content_no_comments, m[1], m[2]))
        Body(hits) ==
            IF hits = {} THEN None
            ELSE Span(RepositoryClassAt(content_no_comments, class_name, Min(hits)))
    IN  Body({i \in 1..Len(content_no_comments) :
                 RepositoryClassAt(content_no_comments, class_name, i) # None})

extract_class_content(content, class_name) ==
    LET Span(text, m) == Some(SubSeq(text, m[1], m[2]))
        Plain(text, hits) ==
            IF hits = {} THEN None
            ELSE Span(text, PlainClassAt(text, class_name, Min(hits)))
        Derived(text, body) ==
            IF body # None THEN body
            ELSE Plain(text, {i \in 1..Len(text) : PlainClassAt(text, class_name, i) # None})
        Search(text) == Derived(text, RepositoryClassBody(text, class_name))
    IN  Search(remove_comments(content))

\* the identifier in front of the parenthesis at p, which whitespace
\* separates from the text before it: <<first, last>> position, or None
NameBefore(s, p) ==
    LET Starts(n, e) ==
            IF n > 1 /\ Ch(s, n) \in IdentStart /\ Ch(s, n - 1) \in Space
            THEN <<n, e>>
            ELSE None
        First(runs, e) == Starts(IF runs = {} THEN 0 ELSE Min(runs), e)
        Name(e) == First({n \in 1..e : \A j \in n..e : Ch(s, j) \in IdentChar}, e)
    IN  IF Ch(s, p) = "(" THEN Name(SkipBack(s, p - 1)) ELSE None

\* [^)]*\)(?:\s+const)?(?:\s+override)?(?:\s*=\s*0)?\s*; matched after the
\* parenthesis at p: the position of the semicolon, 0 without a match
DeclarationTail(s, p) ==
    LET WordAt(j, k, w) == IF k > j /\ LitAt(s, k, w) THEN k + Len(w) ELSE j
        Word(j, w) == WordAt(j, Skip(s, j, Space), w)
        ZeroAt(j, z) == IF Ch(s, z) = "0" THEN z + 1 ELSE j
        PureAt(j, k) == IF Ch(s, k) = "=" THEN ZeroAt(j, Skip(s, k + 1, Space)) ELSE j
        Pure(j) == PureAt(j, Skip(s, j, Space))
        EndAt(k) == IF Ch(s, k) = ";" THEN k ELSE 0
        End(j) == EndAt(Skip(s, j, Space))
        Closed(closes) ==
            IF closes = {} THEN 0
            ELSE End(Pure(Word(Word(Min(closes) + 1, "const"), "override")))
    IN  Closed({c \in (p + 1)..Len(s) : Ch(s, c) = ")"})

\* the positions at which the return type may start when the pattern
\* (?:Public|Private|Protected)\s+(?:Virtual\s+|Static\s+)?(?:const\s+)?
\* is matched at position i
ReturnTypeStarts(s, i) ==
    LET After(q, words) ==
            {q} \cup {Skip(s, q + Len(w), Space) :
                         w \in {v \in words : LitAt(s, q, v) /\ Ch(s, q + Len(v)) \in Space}}
        access == {w \in {"Public", "Private", "Protected"} :
                      LitAt(s, i, w) /\ Ch(s, i + Len(w)) \in Space}
    IN  UNION {UNION {After(v, {"const"}) : v \in After(Skip(s, i + Len(w), Space),
                                                         {"Virtual", "Static"})} :
                  w \in access}

\* a match of one of the two patterns of extract_method_names that starts at
\* position pos or later and whose \( is the character at p: the captured
\* method name and the matched text, or None
MethodMatchAt(s, pos, p, simple) ==
    LET InType(a, name) == \A j \in a..(name[1] - 1) : Ch(s, j) \in ReturnTypeChar
        Matched(name, semicolon, starts) ==
            IF starts = {} THEN None
            ELSE [method_name |-> SubSeq(s, name[1], name[2]),
                  text |-> SubSeq(s, Min(starts), semicolon),
                  end |-> semicolon]
        Match(name, semicolon) ==
            Matched(name, semicolon,
                    IF simple
                    THEN {a \in pos..(name[1] - 3) :
                             /\ Ch(s, a) \in IdentStart
                             /\ Ch(s, a - 1) \notin IdentChar
                             /\ InType(a, name)}
                    ELSE {i \in pos..(name[1] - 3) :
                             \E a \in ReturnTypeStarts(s, i) :
                                 /\ a <= name[1] - 2
                                 /\ Ch(s, a) \in IdentStart
                                 /\ InType(a, name)})
        Tailed(name, semicolon) ==
            IF name = None \/ semicolon = 0 THEN None ELSE Match(name, semicolon)
    IN  Tailed(NameBefore(s, p), DeclarationTail(s, p))

\* re.finditer: the matches from position pos on, left to right, none
\* overlapping another
RECURSIVE MethodMatches(_, _, _)
MethodMatches(s, pos, simple) ==
    LET Rest(m) == <<m>> \o MethodMatches(s, m.end + 1, simple)
        First(parens) ==
            IF parens = {} THEN <<>> ELSE Rest(MethodMatchAt(s, pos, Min(parens), simple))
    IN  First({p \in pos..Len(s) : Ch(s, p) = "(" /\ MethodMatchAt(s, pos, p, simple) # None})

InList(x, list) == \E k \in 1..Len(list) : list[k] = x

\* the two loops of extract_method_names over the matches of a pattern
RECURSIVE AppendMethodNames(_, _, _, _)
AppendMethodNames(matches, k, method_names, simple) ==
    LET keywords == {"Public", "Private", "Protected", "Virtual", "Static", "const",
                     "override"}
                    \cup (IF simple THEN {"if", "for", "while", "return"} ELSE {})
        Accepted(m) ==
            /\ m.method_name \notin keywords
            /\ ~InList(m.method_name, method_names)
            /\ simple => \/ Contains(m.text, "override")
                         \/ Contains(m.text, "= 0")
                         \/ Ch(m.method_name, 1) \in Upper
        Next(m) ==
            AppendMethodNames(matches, k + 1,
                              IF Accepted(m) THEN Append(method_names, m.method_name)
                              ELSE method_names,
                              simple)
    IN  IF k > Len(matches) THEN method_names ELSE Next(matches[k])

extract_method_names(class_content) ==
    AppendMethodNames(MethodMatches(class_content, 1, TRUE), 1,
                      AppendMethodNames(MethodMatches(class_content, 1, FALSE), 1, <<>>, FALSE),
                      TRUE)

\* extract_repository_methods(file_path): [] when the file cannot be read
extract_repository_methods(fs, file_path) ==
    LET Methods(class_content) ==
            IF class_content = None \/ class_content = Some("") THEN <<>>
            ELSE extract_method_names(class_content[1])
        Named(content, class_name) ==
            IF class_name = "" THEN <<>>
            ELSE Methods(extract_class_content(content, class_name))
        Read(content) == Named(content, extract_class_name_from_define_standard_pointers(content))
    IN  IF ~CanRead(fs, file_path) THEN <<>> ELSE Read(ReadContent(fs, file_path))

\* extract_entity_type(repository_file), "" for None
extract_entity_type(fs, repository_file) ==
    LET Typed(text, class_name, match) ==
            IF match = None THEN ""
            ELSE IF TemplateClassSearch(text, class_name) /\ match[1] \in {"Entity", "T", "E"}
            THEN "Entity"
            ELSE match[1]
        Named(text, class_name) ==
            IF class_name = "" THEN ""
            ELSE Typed(text, class_name, extract_cpaRepository_info(text, class_name))
        Read(text) == Named(text, extract_class_name_from_define_standard_pointers(text))
    IN  IF ~CanRead(fs, repository_file) THEN ""
        ELSE Read(remove_comments(ReadContent(fs, repository_file)))

\* re.search(rf'\b{method_name}\s*\(', stripped)
MethodNameSearch(stripped, method_name) ==
    \E i \in 1..Len(stripped) :
        /\ LitAt(stripped, i, method_name)
        /\ Ch(stripped, i - 1) \notin IdentChar
        /\ Ch(stripped, Skip(stripped, i + Len(method_name), Space)) = "("

\* get_method_declaration(repository_file, method_name): Some(line) or None
get_method_declaration(fs, repository_file, method_name) ==
    LET First(lines, hits) == IF hits = {} THEN None ELSE Some(Strip(lines[Min(hits)]))
        Line(lines) ==
            First(lines, {k \in 1..Len(lines) : MethodNameSearch(Strip(lines[k]), method_name)})
        Body(class_body) == IF class_body = None THEN None ELSE Line(SplitNl(class_body[1]))
        Named(text, class_name) ==
            IF class_name = "" THEN None ELSE Body(RepositoryClassBody(text, class_name))
        Read(text) == Named(text, extract_class_name_from_define_standard_pointers(text))
    IN  IF ~CanRead(fs, repository_file) THEN None
        ELSE Read(remove_comments(ReadContent(fs, repository_file)))

\* re.search(r'([A-Za-z_][A-Za-z0-9_]*)\s*$', text): <<first, last>> position
\* of the identifier that ends the text, None without one
TrailingIdentifier(text) ==
    LET First(starts, e) == IF starts = {} THEN None ELSE <<Min(starts), e>>
        Ending(e) ==
            First({n \in 1..e : Ch(text, n) \in IdentStart
                                  /\ \A j \in n..e : Ch(text, j) \in IdentChar}, e)
    IN  Ending(SkipBack(text, Len(text)))

\* extract_parameter_name(method_declaration): Some(name) or None
extract_parameter_name(method_declaration) ==
    LET Trailing(first_param, m) ==
            IF m = None THEN None ELSE Some(SubSeq(first_param, m[1], m[2]))
        Name(first_param) == Trailing(first_param, TrailingIdentifier(first_param))
        Split(parameters, commas) ==
            IF parameters = "" THEN None
            ELSE Name(Strip(IF commas = {} THEN parameters
                            ELSE SubSeq(parameters, 1, Min(commas) - 1)))
        First(parameters) ==
            Split(parameters, {i \in 1..Len(parameters) : Ch(parameters, i) = ","})
        Between(open, closes) ==
            First(Strip(SubSeq(method_declaration, open + 1,
                               Min({c \in closes : c > open}) - 1)))
        Opened(opens, closes) == IF opens = {} THEN None ELSE Between(Min(opens), closes)
        Closed(closes) ==
            Opened({o \in 1..Len(method_declaration) :
                       Ch(method_declaration, o) = "(" /\ \E c \in closes : c > o}, closes)
    IN  Closed({c \in 1..Len(method_declaration) : Ch(method_declaration, c) = ")"})

\* extract_method_info(repository_file, method_name): the tuple or None
extract_method_info(fs, repository_file, method_name) ==
    LET Info(method_declaration, action, variable_name, parameter_name) ==
            IF action = None \/ variable_name = None \/ variable_name = Some("")
               \/ parameter_name = None
            THEN None
            ELSE [action |-> action[1], variable_name |-> variable_name[1],
                  parameter_name |-> parameter_name[1],
                  method_declaration |-> method_declaration]
        Declared(method_declaration) ==
            IF method_declaration = None \/ method_declaration = Some("") THEN None
            ELSE Info(method_declaration[1], extract_method_action(method_name),
                      extract_findby_variable_name(method_declaration[1]),
                      extract_parameter_name(method_declaration[1]))
    IN  Declared(get_method_declaration(fs, repository_file, method_name))

\* re.sub(r'\s*(override\s*)?\{?\s*$', '', signature)
CutOverrideBrace(signature) ==
    LET Cut(r, w) == IF EndsWith(r, w) THEN RStrip(SubSeq(r, 1, Len(r) - Len(w))) ELSE r
    IN  Cut(Cut(RStrip(signature), "{"), "override")

\* re.sub(r'\s*=\s*0\s*;?\s*$', '', signature)
CutPureVirtual(signature) ==
    LET Cut(r, w) == IF EndsWith(r, w) THEN RStrip(SubSeq(r, 1, Len(r) - Len(w))) ELSE r
        Equals(r) == IF EndsWith(r, "=") THEN Cut(r, "=") ELSE signature
        Zero(r) == IF EndsWith(r, "0") THEN Equals(Cut(r, "0")) ELSE signature
    IN  Zero(Cut(RStrip(signature), ";"))

\* parse_function_signature(signature): return_type is "" where the source
\* has None
parse_function_signature(signature) ==
    LET Unparsed(access_modifier) ==
            [access_modifier |-> access_modifier, return_type |-> "",
             method_name |-> "", parameter_declaration |-> ""]
        Fields(access_modifier, rest, p, name, closes) ==
            IF \/ name = None
               \/ closes = {}
               \/ name[1] < 4
               \/ Ch(rest, 1) \notin IdentStart
               \/ \E j \in 1..(name[1] - 1) : Ch(rest, j) \notin ReturnTypeChar
            THEN Unparsed(access_modifier)
            ELSE [access_modifier |-> access_modifier,
                  return_type |-> Strip(SubSeq(rest, 1, name[1] - 1)),
                  method_name |-> SubSeq(rest, name[1], name[2]),
                  parameter_declaration |-> Strip(SubSeq(rest, p + 1, Min(closes) - 1))]
        At(access_modifier, rest, p) ==
            Fields(access_modifier, rest, p, NameBefore(rest, p),
                   {c \in (p + 1)..Len(rest) : Ch(rest, c) = ")"})
        Opened(access_modifier, rest, parens) ==
            IF parens = {} THEN Unparsed(access_modifier)
            ELSE At(access_modifier, rest, Min(parens))
        Parse(access_modifier, rest) ==
            Opened(access_modifier, rest, {p \in 1..Len(rest) : Ch(rest, p) = "("})
        Virtual(access, sig) ==
            IF StartsWith(sig, "Virtual ")
            THEN Parse(IF access = "" THEN "Virtual" ELSE access \o " Virtual", From(sig, 9))
            ELSE Parse(IF access = "" THEN "Public" ELSE access, sig)
        Taken(sig, w) == Virtual(w, From(sig, Skip(sig, Len(w) + 1, Space)))
        Worded(sig, words) ==
            IF words = {} THEN Virtual("", sig) ELSE Taken(sig, CHOOSE w \in words : TRUE)
        Access(sig) ==
            Worded(sig, {w \in {"Public", "Private", "Protected", "Virtual"} :
                            LitAt(sig, 1, w) /\ Ch(sig, Len(w) + 1) \in Space})
    IN  Access(Strip(CutPureVirtual(CutOverrideBrace(signature))))

\* generate_find_implementation(...): the lines of the code
generate_find_implementation(access_modifier, return_type, method_name, parameter_declaration, variable_name, parameter_name, entity_type) ==
    LET is_optional == Contains(return_type, "optional") \/ Contains(return_type, "Optional")
        is_vector == \/ Contains(return_type, "StdVector")
                     \/ Contains(return_type, "vector")
                     \/ Contains(return_type, "Vector")
        method_signature == "    " \o access_modifier \o " " \o return_type \o " "
                            \o method_name \o "(" \o parameter_declaration \o ") override {"
        entities == "        StdVector<" \o entity_type \o "> entities = FindAll();"
        compare == "            if (entity." \o variable_name \o " == " \o parameter_name \o ") {"
    IN  IF is_optional
        THEN << method_signature, entities,
                "        for (const auto& entity : entities) {", compare,
                "                return entity;", "            }", "        }",
                "        return std::nullopt;", "    }" >>
        ELSE IF is_vector
        THEN << method_signature, entities,
                "        StdVector<" \o entity_type \o "> result;",
                "        for (const auto& entity : entities) {", compare,
                "                result.push_back(entity);", "            }", "        }",
                "        return result;", "    }" >>
        ELSE << method_signature, entities,
                "        for (const auto& entity : entities) {", compare,
                "                return entity;", "            }", "        }",
                "        // TODO: Handle case when entity not found",
                "        return " \o entity_type \o "();", "    }" >>

\* generate_method_implementation(...): the lines of the code or None
generate_method_implementation(action, variable_name, parameter_name, function_signature, entity_type) ==
    LET Renamed(parameter_declaration, m) ==
            IF m = None THEN parameter_declaration
            ELSE SubSeq(parameter_declaration, 1, m[1] - 1) \o parameter_name
        Generate(sig) ==
            IF sig.return_type = "" \/ sig.method_name = "" THEN None
            ELSE IF ToLower(action) = "find"
            THEN generate_find_implementation(sig.access_modifier, sig.return_type,
                     sig.method_name,
                     Renamed(sig.parameter_declaration,
                             TrailingIdentifier(sig.parameter_declaration)),
                     variable_name, parameter_name, entity_type)
            ELSE None
    IN  IF action = "" \/ variable_name = "" \/ parameter_name = "" \/ function_signature = ""
        THEN None
        ELSE Generate(parse_function_signature(function_signature))

\* the loop of generate_repository_implementation over method_names[k..]:
\* the implementations found so far, each a list of lines
RECURSIVE MethodImplementations(_, _, _, _, _)
MethodImplementations(fs, repository_file, entity_type, method_names, k) ==
    LET Code(info) ==
            IF info = None THEN None
            ELSE generate_method_implementation(info.action, info.variable_name,
                     info.parameter_name, info.method_declaration, entity_type)
        Add(code) ==
            (IF code = None THEN <<>> ELSE <<code>>)
            \o MethodImplementations(fs, repository_file, entity_type, method_names, k + 1)
    IN  IF k > Len(method_names) THEN <<>>
        ELSE TheOne({Add(Code(info)) :
                        info \in {extract_method_info(fs, repository_file, method_names[k])}})

\* '\n\n'.join(implementations) as a list of lines
RECURSIVE JoinImplementations(_)
JoinImplementations(implementations) ==
    IF Len(implementations) = 1 THEN implementations[1]
    ELSE implementations[1] \o <<"">> \o JoinImplementations(Tail(implementations))

\* generate_repository_implementation(repository_file): the lines of the
\* bodies of the interface's own methods, None when there is none
generate_repository_implementation(fs, source_file_path) ==
    LET Joined(implementations) ==
            IF implementations = <<>> THEN None ELSE JoinImplementations(implementations)
    IN  TheOne({Joined(MethodImplementations(fs, source_file_path,
                           IF entity_type = "" THEN "Entity" ELSE entity_type,
                           method_names, 1)) :
                   entity_type \in {extract_entity_type(fs, source_file_path)},
                   method_names \in {extract_repository_methods(fs, source_file_path)}})

\* the seven delegating methods, E and I being the entity and id types
BaseMethodImplementations(E, I) ==
    << "    Public Virtual " \o E \o " Save(" \o E \o "& entity) override {",
       "        return CpaRepositoryImpl<" \o E \o ", " \o I \o ">::Save(entity);",
       "    }",
       "",
       "    Public Virtual optional<" \o E \o "> FindById(" \o I \o " id) override {",
       "        return CpaRepositoryImpl<" \o E \o ", " \o I \o ">::FindById(id);",
       "    }",
       "",
       "    Public Virtual StdVector<" \o E \o "> FindAll() override {",
       "        return CpaRepositoryImpl<" \o E \o ", " \o I \o ">::FindAll();",
       "    }",
       "",
       "    Public Virtual " \o E \o " Update(" \o E \o "& entity) override {",
       "        return CpaRepositoryImpl<" \o E \o ", " \o I \o ">::Update(entity);",
       "    }",
       "",
       "    Public Virtual Void DeleteById(" \o I \o " id) override {",
       "        CpaRepositoryImpl<" \o E \o ", " \o I \o ">::DeleteById(id);",
       "    }",
       "",
       "    Public Virtual Void Delete(" \o E \o "& entity) override {",
       "        CpaRepositoryImpl<" \o E \o ", " \o I \o ">::Delete(entity);",
       "    }",
       "",
       "    Public Virtual Bool ExistsById(" \o I \o " id) override {",
       "        return CpaRepositoryImpl<" \o E \o ", " \o I \o ">::ExistsById(id);",
       "    }" >>

\* generate_impl_class(...): the lines of the code, without terminators
generate_impl_class(fs, class_name, entity_type, id_type, source_file_path, is_templated) ==
    LET impl_class_name == class_name \o "Impl"
        header_guard == "_" \o ToUpper(impl_class_name) \o "_H_"
        repository_ptr == class_name \o "Ptr"
        Custom(custom) == IF custom # None THEN <<"">> \o custom ELSE <<>>
        E == IF is_templated THEN "Entity" ELSE entity_type
        I == IF is_templated THEN "ID" ELSE id_type
        args == IF is_templated THEN "<Entity, ID>" ELSE ""
        head == IF is_templated THEN "template <typename Entity, typename ID>" ELSE "template <>"
    IN  << "#ifndef " \o header_guard,
           "#define " \o header_guard,
           "",
           "#include \"CpaRepositoryImpl.h\"",
           "" >>
        \o (IF is_templated THEN << "template<typename Entity, typename ID>" >> ELSE <<>>)
        \o << "class " \o impl_class_name \o " : public " \o class_name \o args
                  \o ", public CpaRepositoryImpl<" \o E \o ", " \o I \o "> {",
              "    Public Virtual ~" \o impl_class_name \o "() = default;" >>
        \o BaseMethodImplementations(E, I)
        \o Custom(IF fs[source_file_path].exists
                  THEN generate_repository_implementation(fs, source_file_path)
                  ELSE None)
        \o << "",
              "    Public Static " \o repository_ptr \o " GetInstance() {",
              "        static " \o repository_ptr \o " instance(new " \o impl_class_name
                  \o args \o "());",
              "        return instance;",
              "    }",
              "",
              "};",
              "",
              head,
              "struct Implementation<" \o class_name \o args \o "> {",
              "    using type = " \o impl_class_name \o args \o ";",
              "};",
              "",
              head,
              "struct Implementation<" \o class_name \o args \o "*> {",
              "    using type = " \o impl_class_name \o args \o "*;",
              "};",
              "",
              "#endif // " \o header_guard >>

\* open(impl_file_path, 'w') and file.write(impl_code)
WriteImplementation(fs, impl_file_path, impl_code) ==
    [ret |-> TRUE,
     fs  |-> [fs EXCEPT ![impl_file_path] =
                 WriteLines([k \in 1..Len(impl_code) |-> impl_code[k] \o "\n"])]]

\* implement_repository from the repository information on; keep_existing:
\* an implementation file that exists is left alone
ImplementDetected(fs, file_path, library_dir, dry_run, keep_existing, result) ==
    IF result = None THEN [ret |-> FALSE, fs |-> fs]
    ELSE IF keep_existing /\ fs[ImplPath(library_dir, result.class_name)].exists
    THEN [ret |-> FALSE, fs |-> fs]
    ELSE IF dry_run THEN [ret |-> TRUE, fs |-> fs]
    ELSE WriteImplementation(fs, ImplPath(library_dir, result.class_name),
                             generate_impl_class(fs, result.class_name, result.entity_type,
                                                 result.id_type, file_path,
                                                 result.is_templated))

\* implement_repository without the test for an existing implementation file
implement_repository_overwriting(fs, file_path, library_dir, dry_run, repository_info) ==
    ImplementDetected(fs, file_path, library_dir, dry_run, FALSE,
                      IF repository_info # None THEN repository_info
                      ELSE detect_repository(fs, file_path))

\* implement_repository(file_path, library_dir, dry_run, repository_info)
\* with repository_info given (None: detect it from the file)
implement_repository(fs, file_path, library_dir, dry_run, repository_info) ==
    ImplementDetected(fs, file_path, library_dir, dry_run, TRUE,
                      IF repository_info # None THEN repository_info
                      ELSE detect_repository(fs, file_path))

(***************************************************************************)
(* repository/process_repository                                           *)
(***************************************************************************)
\* '\n'.join(lines)
JoinNl(lines) ==
    Join([k \in 1..Len(lines) |-> IF k < Len(lines) THEN lines[k] \o "\n" ELSE lines[k]])

\* re.match(r'^\s*#endif\s*(//.*|/\*.*\*/)?\s*$', line) on a stripped line
EndifMatch(line) ==
    /\ StartsWith(line, "#endif")
    /\ LET rest == From(line, Skip(line, 7, Space)) IN
       \/ rest = ""
       \/ StartsWith(rest, "//")
       \/ StartsWith(rest, "/*") /\ EndsWith(rest, "*/") /\ Len(rest) >= 4

\* find_last_endif_position(content): 1-based line number, 0 for None
find_last_endif_position(content) ==
    LET lines == SplitNl(content)
        hits == {i \in 1..Len(lines) : EndifMatch(Strip(lines[i]))}
    IN  IF hits = {} THEN 0 ELSE Max(hits)

\* add_include_to_file without its look for an include already present
IncludeExistsUnchecked(content, include_path) == FALSE

\* re.search(rf'#include\s+["<]{re.escape(include_path)}[">]', content)
IncludeExists(content, include_path) ==
    \E i \in 1..Len(content) :
        /\ LitAt(content, i, "#include")
        /\ Ch(content, i + 8) \in Space
        /\ LET q == Skip(content, i + 8, Space) IN
           /\ Ch(content, q) \in {"\"", "<"}
           /\ LitAt(content, q + 1, include_path)
           /\ Ch(content, q + 1 + Len(include_path)) \in {"\"", ">"}

\* add_include_to_file that reports success without writing the include
add_include_to_file_reporting(fs, file_path, include_path, dry_run) ==
    IF ~CanRead(fs, file_path) THEN [ret |-> FALSE, fs |-> fs]
    ELSE IF IncludeExists(ReadContent(fs, file_path), include_path)
    THEN [ret |-> FALSE, fs |-> fs]
    ELSE [ret |-> TRUE, fs |-> fs]

\* add_include_to_file that writes the file whatever dry_run says
add_include_to_file_writing(fs, file_path, include_path, dry_run) ==
    LET Add(content) ==
            LET include_statement == "#include \"" \o include_path \o "\""
                Place(lines, last_endif_line) ==
                    IF last_endif_line > 0
                    THEN InsertAfter(lines, last_endif_line - 1, include_statement)
                    ELSE Append(lines, include_statement)
            IN  IF IncludeExists(content, include_path) THEN [ret |-> FALSE, fs |-> fs]
                ELSE [ret |-> TRUE,
                      fs |-> [fs EXCEPT ![file_path] =
                                 WriteContent(JoinNl(Place(SplitNl(content),
                                                           find_last_endif_position(content))))]]
    IN  IF ~CanRead(fs, file_path) THEN [ret |-> FALSE, fs |-> fs]
        ELSE Add(ReadContent(fs, file_path))

add_include_to_file(fs, file_path, include_path, dry_run) ==
    LET Add(content) ==
            LET include_statement == "#include \"" \o include_path \o "\""
                Place(lines, last_endif_line) ==
                    IF last_endif_line > 0
                    THEN InsertAfter(lines, last_endif_line - 1, include_statement)
                    ELSE Append(lines, include_statement)
            IN  IF IncludeExists(content, include_path) THEN [ret |-> FALSE, fs |-> fs]
                ELSE IF dry_run THEN [ret |-> TRUE, fs |-> fs]
                ELSE [ret |-> TRUE,
                      fs |-> [fs EXCEPT ![file_path] =
                                 WriteContent(JoinNl(Place(SplitNl(content),
                                                           find_last_endif_position(content))))]]
    IN  IF ~CanRead(fs, file_path) THEN [ret |-> FALSE, fs |-> fs]
        ELSE Add(ReadContent(fs, file_path))

\* re.match(r'^///\s*@Repository\s*$', stripped)
RepositoryLineMatch(stripped) ==
    /\ StartsWith(stripped, "///")
    /\ LET j == Skip(stripped, 4, Space) IN
       LitAt(stripped, j, "@Repository") /\ j + 11 = Len(stripped) + 1

\* re.match(r'^/\*\s*@Repository\s*\*/\s*$', stripped)
RepositoryProcessedLineMatch(stripped) == AnnotationLineMatch(stripped, "@Repository")

comment_repository_annotation(fs, file_path, dry_run) ==
    IF ~CanRead(fs, file_path) THEN [ret |-> FALSE, fs |-> fs]
    ELSE LET lines == SplitNl(ReadContent(fs, file_path))
             hits == {i \in 1..Len(lines) : RepositoryLineMatch(Strip(lines[i]))}
         IN  IF hits = {}
             THEN [ret |-> \E i \in 1..Len(lines) : RepositoryProcessedLineMatch(Strip(lines[i])),
                   fs  |-> fs]
             ELSE IF dry_run THEN [ret |-> TRUE, fs |-> fs]
             ELSE LET i == Min(hits)
                      marked == (IF StartsWith(lines[i], " ")
                                 THEN Spaces(LeadingWs(lines[i])) ELSE "")
                                \o "/* @Repository */"
                  IN  [ret |-> TRUE,
                       fs  |-> [fs EXCEPT ![file_path] =
                                   WriteContent(JoinNl([lines EXCEPT ![i] = marked]))]]

\* the second chance of process_repository: the marker is processed but
\* the implementation file is missing
ReprocessTyped(class_name, content_no_comments, template_match) ==
    IF template_match = None THEN None
    ELSE [class_name |-> class_name, entity_type |-> template_match[1],
          id_type |-> template_match[2],
          is_templated |-> TemplateClassSearch(content_no_comments, class_name)]

ReprocessCleaned(class_name, content_no_comments) ==
    ReprocessTyped(class_name, content_no_comments,
                   extract_cpaRepository_info(content_no_comments, class_name))

ReprocessNamed(fs, library_dir, content, class_name) ==
    IF class_name = "" THEN None
    ELSE IF fs[ImplPath(library_dir, class_name)].exists THEN None
    ELSE ReprocessCleaned(class_name, remove_comments(content))

ReprocessContent(fs, library_dir, content) ==
    IF ~RepositoryProcessedSearch(content) THEN None
    ELSE ReprocessNamed(fs, library_dir, content,
                        extract_class_name_from_define_standard_pointers(content))

ReprocessInfo(fs, file_path, library_dir) ==
    IF ~CanRead(fs, file_path) THEN None
    ELSE ReprocessContent(fs, library_dir, ReadContent(fs, file_path))

\* the last step of process_repository, after add_include_to_file
CommentIncluded(inc, file_path, dry_run) ==
    IF ~inc.ret THEN [ret |-> FALSE, fs |-> inc.fs]
    ELSE [ret |-> TRUE,
          fs  |-> comment_repository_annotation(inc.fs, file_path, dry_run).fs]

\* process_repository after implement_repository
IncludeImplemented(impl, file_path, impl_file_path, dry_run) ==
    IF ~dry_run /\ ~impl.fs[impl_file_path].exists
    THEN [ret |-> FALSE, fs |-> impl.fs]
    ELSE CommentIncluded(add_include_to_file(impl.fs, file_path, impl_file_path, dry_run),
                         file_path, dry_run)

\* process_repository from the repository information on
ProcessDetected(fs, file_path, library_dir, dry_run, result) ==
    IF result = None THEN [ret |-> FALSE, fs |-> fs]
    ELSE IncludeImplemented(implement_repository(fs, file_path, library_dir, dry_run, result),
                            file_path, ImplPath(library_dir, result.class_name), dry_run)

\* the result of detect_repository, else the second chance
DetectedOrReprocessed(fs, file_path, library_dir, detected) ==
    IF detected # None THEN detected ELSE ReprocessInfo(fs, file_path, library_dir)

process_repository(fs, file_path, library_dir, dry_run) ==
    ProcessDetected(fs, file_path, library_dir, dry_run,
                    DetectedOrReprocessed(fs, file_path, library_dir,
                                          detect_repository(fs, file_path)))

(***************************************************************************)
(* springbootplusplus_data_pre_build: the process_repository loop          *)
(***************************************************************************)
\* for file_path in all_header_files: process_repository(file_path,
\* library_dir, dry_run=False) inside try/except, from all_header_files[k]
\* on; an exception would cost only the file that raised it
RECURSIVE RepositoryLoopFrom(_, _, _, _, _)
RepositoryLoopFrom(fs, all_header_files, k, lib_dir, implemented_count) ==
    LET Continue(r) ==
            RepositoryLoopFrom(r.fs, all_header_files, k + 1, lib_dir,
                               implemented_count + (IF r.ret THEN 1 ELSE 0))
    IN  IF k > Len(all_header_files)
        THEN [implemented_count |-> implemented_count, fs |-> fs]
        ELSE Continue(process_repository(fs, all_header_files[k], lib_dir, FALSE))

process_repository_loop(fs, all_header_files, lib_dir) ==
    RepositoryLoopFrom(fs, all_header_files, 1, lib_dir, 0)

(***************************************************************************)
(* The file system of the model: a project with two headers and a library  *)
(* directory that receives the generated repository implementations.       *)
(***************************************************************************)
HeaderA == "/p/a.h"
HeaderB == "/p/b.h"
library_dir == "/l"

\* get_client_files(project_dir, ['.h', '.hpp']): the sorted header paths
header_files == <<HeaderA, HeaderB>>

RepositoryClasses == {"Repo", "RepoB"}

Paths == {HeaderA, HeaderB} \cup {ImplPath(library_dir, c) : c \in RepositoryClasses}

Missing == [exists |-> FALSE, readable |-> FALSE, lines |-> <<>>]

\* a file that exists but cannot be read or decoded
Unreadable == [exists |-> TRUE, readable |-> FALSE, lines |-> <<>>]

TextFile(lines) == [exists |-> TRUE, readable |-> TRUE, lines |-> lines]

\* the same text with Windows line terminators
Crlf(lines) ==
    [k \in 1..Len(lines) |->
        IF EndsWith(lines[k], "\n")
        THEN SubSeq(lines[k], 1, Len(lines[k]) - 1) \o "\r\n"
        ELSE lines[k]]

\* a file system that holds only the header HeaderA
OnlyA(file) == [p \in Paths |-> IF p = HeaderA THEN file ELSE Missing]

NoCall == [op |-> "none"]

(***************************************************************************)
(* SpecQuery: the read-only functions, each applied once to a header whose *)
(* text is drawn line by line from QueryLines.                             *)
(***************************************************************************)
MaxLines == 3

QueryLines == { "class A {\n", "class AB {\n", "}; class A\n", "{\n", "};\n",
                "  optional<int> x;\n", "/* @Entity */\n", "// }\n" }

QueryNames == {"A", "AB"}

\* all texts of at most n lines
RECURSIVE TextsUpTo(_)
TextsUpTo(n) ==
    IF n = 0 THEN {<<>>}
    ELSE LET shorter == TextsUpTo(n - 1) IN
         shorter \cup {Append(t, l) : t \in {u \in shorter : Len(u) = n - 1}, l \in QueryLines}

\* headers with nested and sibling classes, and braces inside a string
\* literal or inside a comment that follows code
NestedTexts == {
    <<"class A {\n", "    class AB {\n", "        int n;\n", "    };\n", "};\n">>,
    <<"class A {\n", "    class AB {\n", "        const char* s = \"}\";\n",
      "    };\n", "};\n">>,
    <<"class AB {\n", "};\n", "class A {\n", "    int n; // }\n", "};\n">>,
    <<"class A {\n", "    int n; /* { */\n", "};\n", "class AB {\n", "};\n">> }

QueryFiles ==
    {TextFile(t) : t \in TextsUpTo(MaxLines) \cup NestedTexts} \cup {Missing, Unreadable}

InitQuery ==
    /\ disk \in {OnlyA(f) : f \in QueryFiles}
    /\ linesep = "\n"
    /\ SERIALIZABLE_MACRO = "_Entity"
    /\ last = NoCall

QueryCheckDto ==
    /\ last.op = "none"
    /\ LET Return(r) ==
               last' = [op |-> "check_dto_annotation", path |-> HeaderA, class_name |-> "",
                        raised |-> r.raised, result |-> r.info]
       IN  Return(CheckDtoAnnotation(disk, HeaderA, SERIALIZABLE_MACRO))
    /\ UNCHANGED <<disk, linesep, SERIALIZABLE_MACRO>>

QueryBoundaries(class_name) ==
    /\ last.op = "none"
    /\ LET Return(r) ==
               last' = [op |-> "find_class_boundaries", path |-> HeaderA,
                        class_name |-> class_name, raised |-> r.raised, result |-> r.span]
       IN  Return(FindClassBoundaries(disk, HeaderA, class_name))
    /\ UNCHANGED <<disk, linesep, SERIALIZABLE_MACRO>>

QueryAllFields(class_name) ==
    /\ last.op = "none"
    /\ LET Return(r) ==
               last' = [op |-> "extract_all_fields", path |-> HeaderA,
                        class_name |-> class_name, raised |-> r.raised, result |-> r.fields]
       IN  Return(ExtractAllFields(disk, HeaderA, class_name))
    /\ UNCHANGED <<disk, linesep, SERIALIZABLE_MACRO>>

QueryValidationFields(class_name) ==
    /\ last.op = "none"
    /\ LET Return(r) ==
               last' = [op |-> "extract_validation_fields", path |-> HeaderA,
                        class_name |-> class_name, raised |-> r.raised, result |-> r.by_macro]
       IN  Return(ExtractValidationFields(disk, HeaderA, class_name, validation_macros))
    /\ UNCHANGED <<disk, linesep, SERIALIZABLE_MACRO>>

NextQuery ==
    \/ QueryCheckDto
    \/ \E class_name \in QueryNames : QueryBoundaries(class_name)
    \/ \E class_name \in QueryNames : QueryAllFields(class_name)
    \/ \E class_name \in QueryNames : QueryValidationFields(class_name)

SpecQuery == InitQuery /\ [][NextQuery]_vars

(***************************************************************************)
(* SpecInject: inject_methods_into_class called on headers of every brace  *)
(* layout, on both platforms, for as long as the header stays short.       *)
(***************************************************************************)
MaxFileLines == 8

InjectTexts == {
    <<"class A {\n", "    int n;\n", "};\n">>,
    <<"class A\n", "{\n", "    int n;\n", "};\n">>,
    <<"class A : public B\n", "{\n", "};\n">>,
    <<"class A { int n; };\n">>,
    <<"class A;\n", "class A {\n", "    int n;\n", "};\n">>,
    <<"class AB {\n", "};\n", "class A {\n", "\tint n;\n", "};\n">>,
    <<"class A {\n", "    int n;\n", "};">>,
    <<"class A {\n", "\n", "};\n">>,
    <<"class A {\n", "    int n;\n", "    StdString Serialize() const;\n", "};\n">>,
    <<"int n;\n">> }

InjectFiles == {TextFile(t) : t \in InjectTexts}
               \cup {TextFile(Crlf(t)) : t \in InjectTexts}
               \cup {Unreadable}

\* methods_code.split('\n') of the texts handed to the injector
MethodTexts == {
    <<"int GetPrimaryKey() { return 0; }", "", "void Serialize() {}",
      "void Deserialize(int v) {}">>,
    <<"int f();">> }

InitInject ==
    /\ disk \in {OnlyA(f) : f \in InjectFiles}
    /\ linesep \in {"\n", "\r\n"}
    /\ SERIALIZABLE_MACRO = "_Entity"
    /\ last = NoCall

InjectMethodsIntoClass(class_name, methods_lines, dry_run) ==
    /\ Len(disk[HeaderA].lines) <= MaxFileLines
    /\ LET Return(r) ==
               /\ disk' = r.fs
               /\ last' = [op |-> "inject_methods_into_class", path |-> HeaderA,
                           class_name |-> class_name, dry_run |-> dry_run,
                           ret |-> r.ret, before |-> disk]
       IN  Return(inject_methods_into_class(disk, HeaderA, class_name, methods_lines, dry_run))
    /\ UNCHANGED <<linesep, SERIALIZABLE_MACRO>>

NextInject ==
    \E class_name \in {"A"}, methods_lines \in MethodTexts, dry_run \in BOOLEAN :
        InjectMethodsIntoClass(class_name, methods_lines, dry_run)

SpecInject == InitInject /\ [][NextInject]_vars

(***************************************************************************)
(* Spec: the two pipelines run on a project, in any order and any number   *)
(* of times.  The project starts with entity headers, or with repository   *)
(* headers, or with one header that holds both.                            *)
(***************************************************************************)
MaxHeaderLines == 120

EntityTexts == {
    <<"#ifndef A_H\n", "#define A_H\n", "/* @Entity */\n", "class A {\n",
      "    /* @Id */\n", "    optional<int> id;\n", "    /// @NotNull\n",
      "    optional<StdString> name;\n", "};\n", "#endif\n">>,
    <<"DTO /* @Entity */\n", "class A {\n", "    int n;\n", "};\n">>,
    <<"/* @Entity */\n", "class A : public Base\n", "{\n", "    int n;\n", "};\n">>,
    <<"class A;\n", "DTO /* @Entity */\n", "class A {\n", "    int n;\n", "};\n">>,
    <<"/* @Entity */\n", "class A {\n", "    /*--@Id--*/\n", "    int id;\n",
      "    /* @Id */\n", "    int k;\n", "};\n">>,
    <<"/*--@Entity--*/ /* @Entity */\n", "class A {\n", "    int n;\n", "};\n">>,
    <<"/* @Entity */\n", "class A {\n", "    /* @Id */ int id;\n", "    int k;\n",
      "};\n">>,
    <<"/* @Entity */\n", "class A {\n", "    /// @NotEmpty\n", "    optional<int> n;\n",
      "    /// @NotNull\n", "    optional<Address> addr;\n", "};\n">> }

EntityB == <<"/* @Entity */\n", "class B {\n", "    int v;\n", "};\n">>

SerializableText == <<"/*--@Serializable--*/\n", "class Old {\n", "};\n",
                      "/* @Serializable */\n", "class A {\n", "    int n;\n", "};\n">>

RepositoryTexts == {
    <<"#ifndef R_H\n", "#define R_H\n", "/// @Repository\n",
      "DefineStandardPointers(Repo)\n",
      "class Repo : public CpaRepository<User, int> {\n", "};\n", "#endif\n">>,
    <<"  ///@Repository\n", "DefineStandardPointers(Repo)\n",
      "template<typename Entity, typename ID>\n",
      "class Repo : public CpaRepository<Entity, ID> {\n", "};\n", "#endif\n">>,
    <<"/// @Repository users\n", "DefineStandardPointers(Repo)\n",
      "class Repo : public CpaRepository<User, int> {\n", "};\n", "#endif\n">>,
    <<"/* @Repository */\n", "DefineStandardPointers(Repo)\n",
      "class Repo final : public CpaRepository<User, int> {\n", "};\n", "#endif\n">>,
    <<"/// @Repository\n", "DefineStandardPointers(Repo)\n",
      "class Repo : public CpaRepository<User, int> {\n", "};\n">> }

RepositoryB == <<"/// @Repository\n", "DefineStandardPointers(RepoB)\n",
                 "class RepoB : public CpaRepository<User, int> {\n", "};\n", "#endif\n">>

MixedText == <<"/// @Repository\n", "DefineStandardPointers(Repo)\n",
               "class Repo : public CpaRepository<A, int> {\n", "};\n",
               "/* @Entity */\n", "class A {\n", "    /*--@Id--*/\n", "    int old;\n",
               "    /* @Id */\n", "    optional<int> id;\n", "};\n", "#endif\n">>

\* a project: the two headers, nothing generated yet
Project(a, b) ==
    [p \in Paths |-> IF p = HeaderA THEN a ELSE IF p = HeaderB THEN b ELSE Missing]

Projects ==
    {Project(a, b) : a \in {TextFile(t) : t \in EntityTexts} \cup {Unreadable},
                     b \in {Missing, TextFile(EntityB)}}
    \cup {Project(a, b) : a \in {TextFile(t) : t \in RepositoryTexts} \cup {Unreadable},
                          b \in {Missing, TextFile(RepositoryB)}}
    \cup {Project(TextFile(MixedText), Missing)}

\* headers written on the other platform
ForeignTexts == {t \in EntityTexts \cup RepositoryTexts : StartsWith(t[1], "#ifndef")}

Init ==
    /\ \/ /\ disk \in Projects
          /\ linesep = "\n"
          /\ SERIALIZABLE_MACRO = "_Entity"
       \/ /\ disk \in {Project(TextFile(Crlf(t)), Missing) : t \in ForeignTexts}
          /\ linesep = "\n"
          /\ SERIALIZABLE_MACRO = "_Entity"
       \/ /\ disk \in {Project(TextFile(t), Missing) : t \in ForeignTexts}
          /\ linesep = "\r\n"
          /\ SERIALIZABLE_MACRO = "_Entity"
       \/ /\ disk = Project(TextFile(SerializableText), Missing)
          /\ linesep = "\n"
          /\ SERIALIZABLE_MACRO = "Serializable"
    /\ last = NoCall

\* the call repeats the previous one, which was a completed real run
Rerun(op, path) ==
    /\ last.op = op
    /\ last.path = path
    /\ ~last.dry_run
    /\ ~last.raised

Short == \A k \in 1..Len(header_files) : Len(disk[header_files[k]].lines) <= MaxHeaderLines

ProcessAllSerializableClasses(dry_run) ==
    /\ Short
    /\ LET Return(r) ==
               /\ disk' = r.fs
               /\ last' = [op |-> "process_all_serializable_classes", path |-> "",
                           dry_run |-> dry_run, raised |-> r.raised, ret |-> r.ret,
                           rerun |-> Rerun("process_all_serializable_classes", ""),
                           before |-> disk]
       IN  Return(process_all_serializable_classes(disk, header_files, dry_run,
                                                   SERIALIZABLE_MACRO))
    /\ UNCHANGED <<linesep, SERIALIZABLE_MACRO>>

ProcessRepository(file_path, dry_run) ==
    /\ Short
    /\ LET Return(r) ==
               /\ disk' = r.fs
               /\ last' = [op |-> "process_repository", path |-> file_path,
                           dry_run |-> dry_run, raised |-> FALSE, ret |-> r.ret,
                           rerun |-> Rerun("process_repository", file_path),
                           before |-> disk]
       IN  Return(process_repository(disk, file_path, library_dir, dry_run))
    /\ UNCHANGED <<linesep, SERIALIZABLE_MACRO>>

ProcessRepositoryLoop ==
    /\ Short
    /\ LET Return(r) ==
               /\ disk' = r.fs
               /\ last' = [op |-> "process_repository_loop", path |-> "",
                           dry_run |-> FALSE, raised |-> FALSE, ret |-> r.implemented_count,
                           rerun |-> Rerun("process_repository_loop", ""),
                           before |-> disk]
       IN  Return(process_repository_loop(disk, header_files, library_dir))
    /\ UNCHANGED <<linesep, SERIALIZABLE_MACRO>>

Next ==
    \/ \E dry_run \in BOOLEAN : ProcessAllSerializableClasses(dry_run)
    \/ \E dry_run \in BOOLEAN : ProcessRepository(HeaderA, dry_run)
    \/ ProcessRepositoryLoop

Spec == Init /\ [][Next]_vars

(***************************************************************************)
(* SpecGenerate: generate_serialization_methods applied once to arguments  *)
(* drawn from small sets: a class name, a list of fields, the validation   *)
(* table of the class and its @Id fields.                                  *)
(***************************************************************************)
MaxFields == 2

GenerateClassNames == {"A", "Customer"}

\* fields as extract_all_fields returns them
FieldPool == {
    [type |-> "optional<int>", name |-> "id"],
    [type |-> "optional<StdString>", name |-> "email"],
    [type |-> "optional<Address>", name |-> "addr"],
    [type |-> "optional<Point>", name |-> "pt"],
    [type |-> "int", name |-> "count"],
    [type |-> "StdString", name |-> "title"],
    [type |-> "StdVector<optional<int>>", name |-> "items"] }

\* the lists of at most n fields with distinct names
RECURSIVE FieldListsUpTo(_)
FieldListsUpTo(n) ==
    IF n = 0 THEN {<<>>}
    ELSE LET shorter == FieldListsUpTo(n - 1) IN
         shorter \cup {Append(l, f) : l \in {u \in shorter : Len(u) = n - 1},
                                       f \in FieldPool}

DistinctNames(fields) ==
    \A i, j \in 1..Len(fields) : fields[i].name = fields[j].name => i = j

\* a field as extract_validation_fields returns it
Validated(field, function_name) ==
    [type |-> field.type, name |-> field.name, access |-> "none",
     function_name |-> function_name]

\* validation tables over the fields of the class: none, one field under
\* NotNull, the first field under NotNull and Email
ValidationTables(fields) ==
    {<<>>}
    \cup {<<[macro |-> "NotNull", fields |-> <<Validated(fields[k], "ValidateNotNull")>>]>> :
              k \in 1..Len(fields)}
    \cup {<<[macro |-> "NotNull", fields |-> <<Validated(fields[k], "ValidateNotNull")>>],
             [macro |-> "Email", fields |-> <<Validated(fields[k], "ValidateEmail")>>]>> :
              k \in {i \in 1..Len(fields) : i = 1}}

\* the @Id fields of the class: none, its first field, or its second field
\* followed by its first
IdChoices(fields) ==
    {<<>>}
    \cup {<<fields[k]>> : k \in {i \in 1..Len(fields) : i = 1}}
    \cup {<<fields[k], fields[1]>> : k \in {i \in 1..Len(fields) : i = 2}}

InitGenerate ==
    /\ disk = [p \in Paths |-> Missing]
    /\ linesep = "\n"
    /\ SERIALIZABLE_MACRO = "_Entity"
    /\ \E class_name \in GenerateClassNames,
          fields \in {l \in FieldListsUpTo(MaxFields) : DistinctNames(l)} :
          \E by_macro \in ValidationTables(fields), id_fields \in IdChoices(fields) :
              last = [op |-> "arguments", class_name |-> class_name, fields |-> fields,
                      validation_fields_by_macro |-> by_macro, id_fields |-> id_fields,
                      code |-> <<>>]

GenerateSerializationMethods ==
    /\ last.op = "arguments"
    /\ LET Return(code) ==
               last' = [last EXCEPT !.op = "generate_serialization_methods", !.code = code]
       IN  Return(generate_serialization_methods(last.class_name, last.fields,
                      last.validation_fields_by_macro, last.id_fields))
    /\ UNCHANGED <<disk, linesep, SERIALIZABLE_MACRO>>

NextGenerate == GenerateSerializationMethods

SpecGenerate == InitGenerate /\ [][NextGenerate]_vars

(***************************************************************************)
(* SpecMark: the two marker mutators, each applied once to a header whose  *)
(* text is drawn line by line from MarkerLines.                            *)
(***************************************************************************)
MaxMarkerLines == 3

MarkerLines == { "/* @Entity */\n", "  /* @Entity */\n", "\t/* @Entity */\n",
                 "/*--@Entity--*/\n", "/// @Repository\n", " \t///@Repository\n",
                 "/* @Repository */\n", "class A {\n" }

\* all texts of at most n lines
RECURSIVE MarkerTextsUpTo(_)
MarkerTextsUpTo(n) ==
    IF n = 0 THEN {<<>>}
    ELSE LET Longer(shorter) ==
                 shorter \cup {Append(t, l) : t \in {u \in shorter : Len(u) = n - 1},
                                              l \in MarkerLines}
         IN  Longer(MarkerTextsUpTo(n - 1))

MarkerFiles == {TextFile(t) : t \in MarkerTextsUpTo(MaxMarkerLines)} \cup {Missing, Unreadable}

InitMark ==
    /\ disk \in {OnlyA(f) : f \in MarkerFiles}
    /\ linesep = "\n"
    /\ SERIALIZABLE_MACRO = "_Entity"
    /\ last = NoCall

MarkDtoAnnotationProcessed(dry_run) ==
    /\ last.op = "none"
    /\ LET Return(r) ==
               /\ disk' = r.fs
               /\ last' = [op |-> "mark_dto_annotation_processed", path |-> HeaderA,
                           dry_run |-> dry_run, ret |-> r.ret, before |-> disk]
       IN  Return(mark_dto_annotation_processed(disk, HeaderA, dry_run, SERIALIZABLE_MACRO))
    /\ UNCHANGED <<linesep, SERIALIZABLE_MACRO>>

CommentRepositoryAnnotation(dry_run) ==
    /\ last.op = "none"
    /\ LET Return(r) ==
               /\ disk' = r.fs
               /\ last' = [op |-> "comment_repository_annotation", path |-> HeaderA,
                           dry_run |-> dry_run, ret |-> r.ret, before |-> disk]
       IN  Return(comment_repository_annotation(disk, HeaderA, dry_run))
    /\ UNCHANGED <<linesep, SERIALIZABLE_MACRO>>

NextMark ==
    \/ \E dry_run \in BOOLEAN : MarkDtoAnnotationProcessed(dry_run)
    \/ \E dry_run \in BOOLEAN : CommentRepositoryAnnotation(dry_run)

SpecMark == InitMark /\ [][NextMark]_vars

(***************************************************************************)
(* SpecRepository: implement_repository and process_repository on a        *)
(* repository header, with and without an implementation file left by an   *)
(* earlier build.                                                          *)
(***************************************************************************)
RepoImpl == ImplPath(library_dir, "Repo")

\* implementation files found in the library directory
ImplFiles == { Missing, Unreadable, TextFile(<<>>),
               TextFile(<<"#ifndef _REPOIMPL_H_\n", "// edited by hand\n", "#endif\n">>) }

RepositoryHeaders ==
    {TextFile(t) : t \in RepositoryTexts}
    \cup {TextFile(Crlf(t)) : t \in RepositoryTexts}
    \cup {TextFile(MixedText), Unreadable}

InitRepository ==
    /\ disk \in {[Project(a, b) EXCEPT ![RepoImpl] = impl] :
                     a \in RepositoryHeaders, b \in {Missing, TextFile(RepositoryB)},
                     impl \in ImplFiles}
    /\ linesep = "\n"
    /\ SERIALIZABLE_MACRO = "_Entity"
    /\ last = NoCall

ImplementRepository(file_path, dry_run) ==
    /\ Short
    /\ LET Return(r) ==
               /\ disk' = r.fs
               /\ last' = [op |-> "implement_repository", path |-> file_path,
                           dry_run |-> dry_run, raised |-> FALSE, ret |-> r.ret,
                           rerun |-> FALSE, before |-> disk]
       IN  Return(implement_repository(disk, file_path, library_dir, dry_run, None))
    /\ UNCHANGED <<linesep, SERIALIZABLE_MACRO>>

NextRepository ==
    \/ \E dry_run \in BOOLEAN : ImplementRepository(HeaderA, dry_run)
    \/ \E dry_run \in BOOLEAN : ProcessRepository(HeaderA, dry_run)

SpecRepository == InitRepository /\ [][NextRepository]_vars

(***************************************************************************)
(* SpecWindow: the three marker scans, each applied once to a header in    *)
(* which a marker stands a number of lines above its declaration, with     *)
(* blank lines, comment lines or an access-specifier line in between.      *)
(***************************************************************************)
MaxGap == 16

\* the lines that may stand between a marker and its declaration
FillerLines == {"\n", "    // note\n"}

SpecifierLines == {"public:\n", "    private:\n"}

\* n times the line filler
RECURSIVE Repeat(_, _)
Repeat(filler, n) == IF n <= 0 THEN <<>> ELSE <<filler>> \o Repeat(filler, n - 1)

\* gap lines between marker and declaration: all filler, or filler with one
\* access-specifier line at position at
Gaps(gap) ==
    {Repeat(filler, gap) : filler \in FillerLines}
    \cup {[Repeat(filler, gap) EXCEPT ![at] = specifier] :
              filler \in FillerLines, specifier \in SpecifierLines,
              at \in {k \in {1, gap} : 1 <= k /\ k <= gap}}

WindowTexts ==
    UNION {{<<"/* @Entity */\n">> \o between \o <<"class A {\n", "    int a;\n", "};\n">>,
            <<"class A {\n", "    /* @Id */\n">> \o between \o <<"    int id;\n", "};\n">>,
            <<"class A {\n", "    /// @NotNull\n">> \o between
                \o <<"    int id;\n", "};\n">>} :
               between \in UNION {Gaps(gap) : gap \in 0..MaxGap}}

InitWindow ==
    /\ disk \in {OnlyA(TextFile(t)) : t \in WindowTexts}
    /\ linesep = "\n"
    /\ SERIALIZABLE_MACRO = "_Entity"
    /\ last = NoCall

QueryIdFields(class_name) ==
    /\ last.op = "none"
    /\ LET Return(r) ==
               last' = [op |-> "extract_id_fields", path |-> HeaderA,
                        class_name |-> class_name, raised |-> FALSE, result |-> r]
       IN  Return(ExtractIdFields(disk, HeaderA, class_name, validation_macros))
    /\ UNCHANGED <<disk, linesep, SERIALIZABLE_MACRO>>

NextWindow ==
    \/ QueryCheckDto
    \/ QueryValidationFields("A")
    \/ QueryIdFields("A")

SpecWindow == InitWindow /\ [][NextWindow]_vars

(***************************************************************************)
(* SpecSteps: process_repository taken one step at a time.  A run detects  *)
(* the repository, creates the implementation file, adds the include and   *)
(* rewrites the marker; it may be stopped between two steps, and the next  *)
(* run starts from the files the stopped run left.  SpecStepsFair adds     *)
(* that a real run is started whenever none is under way.                  *)
(***************************************************************************)
\* headers whose repository marker is still to be processed
PendingHeaders ==
    {h \in RepositoryHeaders :
        \A k \in 1..Len(h.lines) : ~RepositoryProcessedLineMatch(Strip(h.lines[k]))}

NoRun == [op |-> "process_repository", pc |-> "idle", path |-> HeaderA, dry_run |-> FALSE,
          result |-> None, include_added |-> FALSE, ret |-> FALSE,
          before |-> [p \in Paths |-> Missing]]

InitSteps ==
    /\ disk \in {[Project(a, Missing) EXCEPT ![RepoImpl] = impl] :
                     a \in PendingHeaders, impl \in ImplFiles}
    /\ linesep = "\n"
    /\ SERIALIZABLE_MACRO = "_Entity"
    /\ last = NoRun

\* process_repository is called on the header
StartRun(file_path, dry_run) ==
    /\ Short
    /\ last.pc \in {"idle", "done", "stopped"}
    /\ last' = [op |-> "process_repository", pc |-> "detect", path |-> file_path,
                dry_run |-> dry_run, result |-> None, include_added |-> FALSE,
                ret |-> FALSE, before |-> disk]
    /\ UNCHANGED <<disk, linesep, SERIALIZABLE_MACRO>>

\* step 1: detect the repository, by its marker or by the second chance
DetectStep ==
    /\ last.pc = "detect"
    /\ LET Detected(result) ==
               last' = [last EXCEPT !.pc = IF result = None THEN "done" ELSE "implement",
                                    !.result = result]
           Fallback(detected) ==
               IF detected # None THEN detected
               ELSE ReprocessInfo(disk, last.path, library_dir)
       IN  Detected(Fallback(detect_repository(disk, last.path)))
    /\ UNCHANGED <<disk, linesep, SERIALIZABLE_MACRO>>

\* step 2: create the implementation file, or find it there
ImplementStep ==
    /\ last.pc = "implement"
    /\ LET Return(impl) ==
               /\ disk' = impl.fs
               /\ last' = [last EXCEPT !.pc =
                              IF /\ ~last.dry_run
                                 /\ ~impl.fs[ImplPath(library_dir, last.result.class_name)].exists
                              THEN "done"
                              ELSE "include"]
       IN  Return(implement_repository(disk, last.path, library_dir, last.dry_run,
                                       last.result))
    /\ UNCHANGED <<linesep, SERIALIZABLE_MACRO>>

\* step 5: add the include to the repository header
IncludeStep ==
    /\ last.pc = "include"
    /\ LET Return(inc) ==
               /\ disk' = inc.fs
               /\ last' = [last EXCEPT !.pc = IF inc.ret THEN "comment" ELSE "done",
                                       !.include_added = inc.ret]
       IN  Return(add_include_to_file(disk, last.path,
                                      ImplPath(library_dir, last.result.class_name),
                                      last.dry_run))
    /\ UNCHANGED <<linesep, SERIALIZABLE_MACRO>>

\* step 6: rewrite the marker
CommentStep ==
    /\ last.pc = "comment"
    /\ LET Return(marked) ==
               /\ disk' = marked.fs
               /\ last' = [last EXCEPT !.pc = "done", !.ret = last.include_added]
       IN  Return(comment_repository_annotation(disk, last.path, last.dry_run))
    /\ UNCHANGED <<linesep, SERIALIZABLE_MACRO>>

\* the process stops between two steps
StopRun ==
    /\ last.pc \in {"detect", "implement", "include", "comment"}
    /\ last' = [last EXCEPT !.pc = "stopped"]
    /\ UNCHANGED <<disk, linesep, SERIALIZABLE_MACRO>>

NextSteps ==
    \/ \E dry_run \in BOOLEAN : StartRun(HeaderA, dry_run)
    \/ DetectStep
    \/ ImplementStep
    \/ IncludeStep
    \/ CommentStep
    \/ StopRun

SpecSteps == InitSteps /\ [][NextSteps]_vars

\* the build is run again and again: a real run is started whenever no run
\* is under way
SpecStepsFair == SpecSteps /\ WF_vars(StartRun(HeaderA, FALSE))

(***************************************************************************)
(* SpecEntities: the entity pipeline run any number of times on headers    *)
(* that hold one or two annotated classes and no processed marker.         *)
(***************************************************************************)
FirstClasses == {
    <<"/* @Entity */\n", "class A {\n", "    int a;\n", "};\n">>,
    <<"/* @Entity */\n", "class A {\n", "    /* @Id */\n", "    optional<int> id;\n",
      "};\n">>,
    <<"  /* @Entity */\n", "class A\n", "{\n", "    optional<StdString> name;\n",
      "};\n">> }

SecondClasses == {
    <<"/* @Entity */\n", "class B {\n", "    int v;\n", "};\n">>,
    <<"\n", "/* @Entity */\n", "class B {\n", "    /* @Id */\n", "    optional<int> key;\n",
      "};\n">>,
    <<"class B {\n", "    int v;\n", "};\n">> }

AnnotatedTexts == {a \o b : a \in FirstClasses, b \in {<<>>} \cup SecondClasses}

\* what stands in front of the classes: nothing, a header guard, an include
HeaderPrefixes == {
    <<>>,
    <<"#ifndef A_H\n", "#define A_H\n">>,
    <<"#include <string>\n">> }

InitEntities ==
    /\ disk \in {Project(TextFile(h \o a), b) :
                     h \in HeaderPrefixes, a \in AnnotatedTexts,
                     b \in {Missing} \cup {TextFile(t) : t \in SecondClasses}}
    /\ linesep = "\n"
    /\ SERIALIZABLE_MACRO = "_Entity"
    /\ last = NoCall

NextEntities == \E dry_run \in BOOLEAN : ProcessAllSerializableClasses(dry_run)

SpecEntities == InitEntities /\ [][NextEntities]_vars

(***************************************************************************)
(* SpecDryRun: the functions that take dry_run, applied with and without   *)
(* it to repository headers and to headers that hold a class.              *)
(***************************************************************************)
DryRunHeaders == RepositoryHeaders \cup InjectFiles

InitDryRun ==
    /\ disk \in {[Project(a, Missing) EXCEPT ![RepoImpl] = impl] :
                     a \in DryRunHeaders, impl \in {Missing, TextFile(<<>>)}}
    /\ linesep = "\n"
    /\ SERIALIZABLE_MACRO = "_Entity"
    /\ last = NoCall

AddIncludeToFile(file_path, include_path, dry_run) ==
    /\ Short
    /\ LET Return(r) ==
               /\ disk' = r.fs
               /\ last' = [op |-> "add_include_to_file", path |-> file_path,
                           dry_run |-> dry_run, ret |-> r.ret, before |-> disk]
       IN  Return(add_include_to_file(disk, file_path, include_path, dry_run))
    /\ UNCHANGED <<linesep, SERIALIZABLE_MACRO>>

NextDryRun ==
    \/ \E dry_run \in BOOLEAN : ProcessRepository(HeaderA, dry_run)
    \/ \E dry_run \in BOOLEAN : ImplementRepository(HeaderA, dry_run)
    \/ \E dry_run \in BOOLEAN : AddIncludeToFile(HeaderA, RepoImpl, dry_run)
    \/ \E dry_run \in BOOLEAN : CommentRepositoryAnnotation(dry_run)
    \/ \E methods_lines \in MethodTexts, dry_run \in BOOLEAN :
           InjectMethodsIntoClass("A", methods_lines, dry_run)

SpecDryRun == InitDryRun /\ [][NextDryRun]_vars

(***************************************************************************)
(* SpecFinders: implement_repository and process_repository on a           *)
(* repository interface that declares methods of its own.                  *)
(***************************************************************************)
MaxFinders == 2

\* method declarations of a repository of entities E, each with the lines it
\* is written on and, when it is a FindBy<Suffix> method of one parameter,
\* its name, the camelCase form of <Suffix> and the name of the parameter
FinderPool(E) == {
    [lines |-> <<"    Public Virtual optional<" \o E
                     \o "> FindByUsername(StdString username) = 0;\n">>,
     method |-> "FindByUsername", field |-> "username", parameter |-> "username"],
    [lines |-> <<"    Virtual StdVector<" \o E \o "> FindByAge(int years) = 0;\n">>,
     method |-> "FindByAge", field |-> "age", parameter |-> "years"],
    [lines |-> <<"    " \o E \o " FindByLastName(CStdString& lastName);\n">>,
     method |-> "FindByLastName", field |-> "lastName", parameter |-> "lastName"],
    [lines |-> <<"    Public Virtual " \o E \o " FindByCity(StdString city) override;\n">>,
     method |-> "FindByCity", field |-> "city", parameter |-> "city"],
    [lines |-> <<"    Public Virtual optional<" \o E \o "> FindByEmail(\n",
                 "        StdString email) = 0;\n">>,
     method |-> "FindByEmail", field |-> "email", parameter |-> "email"],
    [lines |-> <<"    Public Virtual Void DeleteByAge(int age) = 0;\n">>,
     method |-> "", field |-> "", parameter |-> ""],
    [lines |-> <<"    Public Virtual Bool ExistsById(int id) = 0; // standard\n">>,
     method |-> "", field |-> "", parameter |-> ""] }

FinderEntities == {"User", "A"}

\* the class bodies of at most n declarations, no declaration twice
RECURSIVE FinderBodiesUpTo(_, _)
FinderBodiesUpTo(E, n) ==
    IF n = 0 THEN {<<>>}
    ELSE LET Longer(shorter) ==
                 shorter \cup {Append(b, d) : b \in {u \in shorter : Len(u) = n - 1},
                                              d \in FinderPool(E)}
         IN  {b \in Longer(FinderBodiesUpTo(E, n - 1)) :
                 \A i, j \in 1..Len(b) : b[i] = b[j] => i = j}

\* the header of the repository of entities E with the declarations of body
FinderHeader(E, body) ==
    LET RECURSIVE Lines(_)
        Lines(k) == IF k > Len(body) THEN <<>> ELSE body[k].lines \o Lines(k + 1)
    IN  <<"#ifndef R_H\n", "#define R_H\n", "/// @Repository\n",
          "DefineStandardPointers(Repo)\n",
          "class Repo : public CpaRepository<" \o E \o ", int> {\n">>
        \o Lines(1) \o <<"};\n", "#endif\n">>

InitFinders ==
    /\ disk \in UNION {{Project(TextFile(FinderHeader(E, body)), Missing) :
                            body \in FinderBodiesUpTo(E, MaxFinders)} :
                        E \in FinderEntities}
    /\ linesep = "\n"
    /\ SERIALIZABLE_MACRO = "_Entity"
    /\ last = NoCall

NextFinders ==
    \/ \E dry_run \in BOOLEAN : ImplementRepository(HeaderA, dry_run)
    \/ \E dry_run \in BOOLEAN : ProcessRepository(HeaderA, dry_run)

SpecFinders == InitFinders /\ [][NextFinders]_vars

(***************************************************************************)
(* SpecNames: the functions on method names, each applied once to a method *)
(* name or a method declaration.                                           *)
(***************************************************************************)
MethodNames ==
    {a \o b \o c : a \in {"", "Find", "Delete", "Save", "Update", "Exists", "Count",
                           "Random", "find", "FIND", "Finder", "F"},
                   b \in {"", "By", "All", "ById", "by"},
                   c \in {"", "LastName", "lastName", "Id", "Status", "Helper"}}

MethodDeclarations ==
    {a \o b \o c \o d : a \in {"", "Virtual ", "Public Virtual "},
                        b \in {"Entity ", "T ", "optional<Entity> ", "Entity* ", "Entity *"},
                        c \in {"FindByLastName", "FindByRollNo", "findbyName", "DeleteById",
                               "Save"},
                        d \in {"(string lastName) = 0;", "(int rollNo);", " (int x)"}}

InitNames ==
    /\ disk = OnlyA(Missing)
    /\ linesep = "\n"
    /\ SERIALIZABLE_MACRO = "_Entity"
    /\ last \in {[op |-> "arguments", input |-> i, result |-> None] :
                    i \in MethodNames \cup MethodDeclarations}

ExtractMethodAction ==
    /\ last.op = "arguments"
    /\ last' = [last EXCEPT !.op = "extract_method_action",
                            !.result = extract_method_action(last.input)]
    /\ UNCHANGED <<disk, linesep, SERIALIZABLE_MACRO>>

ExtractFindbyVariableName ==
    /\ last.op = "arguments"
    /\ last' = [last EXCEPT !.op = "extract_findby_variable_name",
                            !.result = extract_findby_variable_name(last.input)]
    /\ UNCHANGED <<disk, linesep, SERIALIZABLE_MACRO>>

PascalToCamel ==
    /\ last.op = "arguments"
    /\ last' = [last EXCEPT !.op = "pascal_to_camel",
                            !.result = Some(pascal_to_camel(last.input))]
    /\ UNCHANGED <<disk, linesep, SERIALIZABLE_MACRO>>

NextNames ==
    \/ ExtractMethodAction
    \/ ExtractFindbyVariableName
    \/ PascalToCamel

SpecNames == InitNames /\ [][NextNames]_vars

(***************************************************************************)
(* Properties of the pipelines                                             *)
(***************************************************************************)
\* C1: running process_all_serializable_classes a second time after a
\* completed first run leaves every file byte-identical to its state after
\* the first run, for every marker placement and brace layout.
C1_EntityRerunChangesNothing ==
    (last.op = "process_all_serializable_classes" /\ last.rerun) => disk = last.before

\* a second call of process_repository on a file right after a completed one
RepositoryRerun == last.op = "process_repository" /\ last.rerun

\* C2: a second call of process_repository after a completed first call
\* changes neither the source file nor the generated <ClassName>Impl.h: no
\* second include line, no second rewrite of the marker line, no rewrite
\* of the implementation file.
C2_RepositoryRerunChangesNothing == RepositoryRerun => disk = last.before

\* the first call generated and included the implementation, the second
\* call found the work done
C2_SecondCallAfterGeneration ==
    /\ RepositoryRerun
    /\ ~last.dry_run
    /\ disk[ImplPath(library_dir, "Repo")].exists
    /\ IncludeExists(ReadContent(disk, last.path), ImplPath(library_dir, "Repo"))
    /\ disk = last.before

\* the line holds a marker in processed form
ProcessedForm(line) ==
    \/ ProcessedSearch(line, "@Entity")
    \/ ProcessedSearch(line, "@Serializable")
    \/ ProcessedSearch(line, "@Id")
    \/ AnnotationSearch(line, "@Repository")

\* the line holds a /// @Repository marker
RepositoryMarkerLine(line) == DocMarkerSearch(line, "Repository")

EntityClasses == {"A", "B"}

\* what the three scanners report on the lines of one header is never a
\* line in processed form
ReportsNoProcessedMarker(lines) ==
    LET DtoLine(dto) == dto.has_dto => ~ProcessedForm(lines[dto.dto_line])
        IdLines(hits) == \A n \in 1..Len(hits) : ~ProcessedForm(lines[hits[n].marker])
    IN  /\ DtoLine(DtoInfoOf(lines, SERIALIZABLE_MACRO))
        /\ \A c \in EntityClasses : IdLines(IdMarkersOf(lines, c, validation_macros))
        /\ find_repository_annotation(Join(lines)) =>
               \E k \in 1..Len(lines) :
                   RepositoryMarkerLine(lines[k]) /\ ~ProcessedForm(lines[k])

\* C3: after any sequence of pipeline runs, a marker line in processed form
\* (/*--@Entity--*/, /*--@Serializable--*/, /*--@Id--*/, /* @Repository */)
\* is never reported as an unprocessed marker by check_dto_annotation,
\* extract_id_fields or find_repository_annotation.
C3_ProcessedNeverReported ==
    \A k \in 1..Len(header_files) :
        CanRead(disk, header_files[k]) =>
            ReportsNoProcessedMarker(ReadLines(disk, header_files[k]))

\* both pipelines have run on a header that now holds the three kinds of
\* processed marker
C3_AllMarkersProcessed ==
    /\ last.op # "none"
    /\ CanRead(disk, HeaderA)
    /\ LET lines == ReadLines(disk, HeaderA) IN
       /\ \E k \in 1..Len(lines) : ProcessedSearch(lines[k], "@Entity")
       /\ \E k \in 1..Len(lines) : ProcessedSearch(lines[k], "@Id")
       /\ \E k \in 1..Len(lines) : AnnotationSearch(lines[k], "@Repository")
       /\ disk[HeaderA] # last.before[HeaderA]

\* C10: in a batch run a failure while processing one file does not stop
\* the batch: every candidate file is processed exactly as it would be on
\* its own, in the entity batch and in the repository loop.
C10_BatchIsolatesFailures ==
    /\ last.op = "process_all_serializable_classes" =>
           \A k \in 1..Len(header_files) :
               disk[header_files[k]] =
                   ProcessHeader(last.before, header_files[k], last.dry_run,
                                 SERIALIZABLE_MACRO).fs[header_files[k]]
    /\ last.op = "process_repository_loop" =>
           \A k \in 1..Len(header_files) :
               disk[header_files[k]] =
                   process_repository(last.before, header_files[k], library_dir,
                                      FALSE).fs[header_files[k]]

(***************************************************************************)
(* Properties of the read-only functions                                   *)
(***************************************************************************)
\* the text the last call was given, as readlines() returns it
GivenLines == ReadLines(disk, last.path)

\* line declares a class whose name is exactly class_name: the keyword,
\* white space, the name, and no identifier character after the name
DeclaresExactly(line, class_name) ==
    \E i \in 1..Len(line) :
        /\ LitAt(line, i, "class")
        /\ Ch(line, i + 5) \in Space
        /\ LET j == Skip(line, i + 5, Space) IN
           /\ LitAt(line, j, class_name)
           /\ Ch(line, j + Len(class_name)) \notin IdentChar

\* '{' minus '}' over the non-comment lines lo..hi
RECURSIVE NetBraces(_, _, _)
NetBraces(lines, lo, hi) ==
    IF lo > hi THEN 0
    ELSE NetBraces(lines, lo, hi - 1) +
         (IF IsCommentLine(Strip(lines[hi])) THEN 0
          ELSE Count(lines[hi], "{") - Count(lines[hi], "}"))

\* no non-comment line declares class_name
NoDeclarationLine(lines, class_name) ==
    \A k \in 1..Len(lines) :
        IsCommentLine(Strip(lines[k])) \/ ~DeclaresExactly(lines[k], class_name)

\* class_name is declared, and from its first declaration line on the
\* running brace balance is nonzero at every line up to the end of the text
OpenAtEndOfFile(lines, class_name) ==
    LET decl == {k \in 1..Len(lines) : /\ ~IsCommentLine(Strip(lines[k]))
                                       /\ DeclaresExactly(lines[k], class_name)}
    IN  /\ decl # {}
        /\ \A k \in Min(decl)..Len(lines) :
               IsCommentLine(Strip(lines[k])) \/ NetBraces(lines, Min(decl), k) # 0

ReturnedSpan ==
    /\ last.op = "find_class_boundaries"
    /\ ~last.raised
    /\ last.result # None

\* C6: find_class_boundaries(file, N) starts a span only at a line that
\* declares a class named exactly N; a line declaring a class whose name
\* merely contains N is never taken as N's declaration line.
C6_SpanStartsAtExactName ==
    ReturnedSpan => DeclaresExactly(GivenLines[last.result[1]], last.class_name)

\* C7: every span (startLine, endLine) that find_class_boundaries returns
\* has startLine <= endLine, a net brace count of zero over its non-comment
\* lines, and a running balance that is never negative inside the span.
C7_SpanIsBalanced ==
    ReturnedSpan =>
        LET startLine == last.result[1]
            endLine == last.result[2]
        IN  /\ startLine <= endLine
            /\ NetBraces(GivenLines, startLine, endLine) = 0
            /\ \A k \in startLine..endLine : NetBraces(GivenLines, startLine, k) >= 0

\* C8: find_class_boundaries returns None and does not raise when the text
\* holds no declaration line for the class, or when the end of the file is
\* reached while the running brace balance is nonzero.
C8_NotFoundIsNone ==
    (/\ last.op = "find_class_boundaries"
     /\ CanRead(disk, last.path)
     /\ \/ NoDeclarationLine(GivenLines, last.class_name)
        \/ OpenAtEndOfFile(GivenLines, last.class_name))
    => (~last.raised /\ last.result = None)

EmptyResult ==
    IF last.op = "check_dto_annotation" THEN ~last.result.has_dto
    ELSE IF last.op = "find_class_boundaries" THEN last.result = None
    ELSE last.result = <<>>

\* C9: when the file cannot be read (missing, unreadable or not decodable),
\* check_dto_annotation, find_class_boundaries, extract_all_fields and
\* extract_validation_fields return their empty result and raise nothing.
C9_UnreadableGivesEmpty ==
    (/\ last.op \in {"check_dto_annotation", "find_class_boundaries",
                     "extract_all_fields", "extract_validation_fields"}
     /\ ~CanRead(disk, last.path))
    => (~last.raised /\ EmptyResult)

(***************************************************************************)
(* Properties of inject_methods_into_class                                 *)
(***************************************************************************)
\* new is old with a block of n >= 1 lines put in after its first p lines
InsertedAt(old, new, p, n) ==
    /\ Len(new) = Len(old) + n
    /\ SubSeq(new, 1, p) = SubSeq(old, 1, p)
    /\ SubSeq(new, p + n + 1, Len(new)) = SubSeq(old, p + 1, Len(old))

Injected ==
    /\ last.op = "inject_methods_into_class"
    /\ disk # last.before

\* the call hit the double-injection guard
GuardHit ==
    LET lines == ReadLines(last.before, last.path)
        span == BoundariesOf(lines, last.class_name)
    IN  span # None /\ AlreadyInjected(lines, span)

\* C4: inject_methods_into_class changes the file only by inserting lines at
\* one position: without the inserted lines the file is the original one
\* byte for byte, terminators included; a call that does not inject (guard
\* hit, class not found, dry run) leaves the file unchanged.
C4_OnlyInsertsLines ==
    last.op = "inject_methods_into_class" =>
        LET old == last.before[last.path].lines
            new == disk[last.path].lines
        IN  /\ \A p \in Paths \ {last.path} : disk[p] = last.before[p]
            /\ \/ disk[last.path] = last.before[last.path]
               \/ \E p \in 0..Len(old), n \in 1..Len(new) : InsertedAt(old, new, p, n)
            /\ (last.dry_run \/ ~last.ret \/ GuardHit) => disk = last.before

\* the class is only announced on this line: `class C;`
ForwardDeclaration(line, class_name) ==
    \E i \in 1..Len(line) :
        /\ LitAt(line, i, "class")
        /\ Ch(line, i + 5) \in Space
        /\ LET j == Skip(line, i + 5, Space) IN
           /\ LitAt(line, j, class_name)
           /\ Ch(line, Skip(line, j + Len(class_name), Space)) = ";"

\* the line on which the definition of class_name starts, 0 if there is none
DeclarationLine(lines, class_name) ==
    LET decl == {k \in 1..Len(lines) : /\ ~IsCommentLine(Strip(lines[k]))
                                       /\ DeclaresExactly(lines[k], class_name)
                                       /\ ~ForwardDeclaration(lines[k], class_name)}
    IN  IF decl = {} THEN 0 ELSE Min(decl)

\* the line that holds the closing brace of the class defined from line decl
\* on: the first one at which a brace has been opened and all are closed
ClosingLine(lines, decl) ==
    LET closed == {k \in decl..Len(lines) :
                      /\ NetBraces(lines, decl, k) = 0
                      /\ \E m \in decl..k : Count(lines[m], "{") > 0}
    IN  IF decl = 0 \/ closed = {} THEN 0 ELSE Min(closed)

\* C5: whenever inject_methods_into_class inserts text for class C, every
\* inserted line lies after C's declaration line and before the line that
\* holds C's closing brace, whatever the brace layout of C and also when a
\* forward declaration of C precedes the definition.
C5_InsertedInsideBody ==
    Injected =>
        LET old == ReadLines(last.before, last.path)
            new == ReadLines(disk, last.path)
            decl == DeclarationLine(old, last.class_name)
            close == ClosingLine(old, decl)
        IN  \E p \in 0..Len(old), n \in 1..Len(new) :
                /\ InsertedAt(old, new, p, n)
                /\ decl >= 1 /\ decl <= p
                /\ p < close

(***************************************************************************)
(* Properties of find_class_boundaries on nested classes                   *)
(***************************************************************************)
\* the code of a line: what is left of it without string literals, without
\* /* */ comments and without the // comment that ends it
RECURSIVE CodeFrom(_, _, _)
CodeFrom(line, i, in_string) ==
    IF i > Len(line) THEN ""
    ELSE IF in_string
    THEN CodeFrom(line, i + 1, Ch(line, i) # "\"")
    ELSE IF LitAt(line, i, "//") THEN ""
    ELSE IF LitAt(line, i, "/*")
    THEN LET closes == {j \in (i + 2)..Len(line) : LitAt(line, j, "*/")}
         IN  IF closes = {} THEN "" ELSE CodeFrom(line, Min(closes) + 2, FALSE)
    ELSE IF Ch(line, i) = "\"" THEN CodeFrom(line, i + 1, TRUE)
    ELSE Ch(line, i) \o CodeFrom(line, i + 1, FALSE)

CodeOf(line) == CodeFrom(line, 1, FALSE)

\* '{' minus '}' in the code of lines lo..hi
RECURSIVE RealBraces(_, _, _)
RealBraces(lines, lo, hi) ==
    IF lo > hi THEN 0
    ELSE RealBraces(lines, lo, hi - 1)
         + Count(CodeOf(lines[hi]), "{") - Count(CodeOf(lines[hi]), "}")

\* the line of the closing brace of the class declared on line decl: the
\* first line at which a code brace has been opened and all are closed;
\* 0 when there is none
RealClosingLine(lines, decl) ==
    LET closed == {k \in decl..Len(lines) :
                      /\ RealBraces(lines, decl, k) = 0
                      /\ \E m \in decl..k : Count(CodeOf(lines[m]), "{") > 0}
    IN  IF closed = {} THEN 0 ELSE Min(closed)

\* two spans share no line, or one lies strictly inside the other (a nested
\* class inside its enclosing class)
Apart(s, t) ==
    \/ s[2] < t[1] \/ t[2] < s[1]
    \/ (s[1] < t[1] /\ t[2] < s[2])
    \/ (t[1] < s[1] /\ s[2] < t[2])

\* C11: on a file with several, possibly nested, classes and with braces
\* inside string literals or comments, the span find_class_boundaries
\* returns for a class ends at the line of the class's real closing brace,
\* and the spans of distinct classes do not overlap.
C11_SpanEndsAtRealClosingBrace ==
    (last.op = "find_class_boundaries" /\ CanRead(disk, last.path)) =>
        LET Ends(lines, decl) ==
                (decl > 0 /\ RealClosingLine(lines, decl) > 0) =>
                    /\ last.result = <<decl, RealClosingLine(lines, decl)>>
                    /\ \A other \in QueryNames \ {last.class_name} :
                           LET Other(o) == o = None \/ Apart(last.result, o)
                           IN  Other(BoundariesOf(lines, other))
        IN  Ends(GivenLines, DeclarationLine(GivenLines, last.class_name))

(***************************************************************************)
(* Properties of the generated code                                        *)
(***************************************************************************)
Generated == last.op = "generate_serialization_methods"

\* the first line of code equal to line, 0 when there is none
IndexOf(code, line) ==
    LET at == {k \in 1..Len(code) : code[k] = line}
    IN  IF at = {} THEN 0 ELSE Min(at)

\* the lines of Serialize(): from its signature up to the validation method
SerializeBody(code) ==
    SubSeq(code, IndexOf(code, "    Public StdString Serialize() const {"),
           IndexOf(code, "        // Validation method for all validation macros") - 1)

\* the lines of ValidateFields()
ValidateFieldsBody(code) ==
    SubSeq(code, IndexOf(code, "        Static StdString ValidateFields(DocType& doc) {"),
           IndexOf(code, "    // Deserialization method") - 1)

\* the lines of Deserialize(): from its heading up to the primary key methods
DeserializeBody(code) ==
    SubSeq(code, IndexOf(code, "    // Deserialization method"),
           IndexOf(code, "    // Primary key methods") - 1)

\* the lines of the primary key methods
PrimaryKeyBody(code) ==
    SubSeq(code, IndexOf(code, "    // Primary key methods") + 1, Len(code))

\* line holds name as a whole identifier
Mentions(line, name) ==
    \E i \in 1..Len(line) :
        /\ LitAt(line, i, name)
        /\ Ch(line, i - 1) \notin IdentChar
        /\ Ch(line, i + Len(name)) \notin IdentChar

BodyMentions(body, name) == \E k \in 1..Len(body) : Mentions(body[k], name)

\* the declared type is optional<...> or std::optional<...>
OptionalWrapped(type) ==
    /\ StartsWith(Strip(type), "optional<") \/ StartsWith(Strip(type), "std::optional<")
    /\ EndsWith(Strip(type), ">")

\* C12: the Serialize and Deserialize bodies produced by
\* generate_serialization_methods mention a field name only if the field's
\* declared type is optional-wrapped; no non-optional field appears in
\* either body.
C12_OnlyOptionalFieldsInBodies ==
    Generated =>
        LET Excluded(serialize, deserialize) ==
                \A k \in 1..Len(last.fields) :
                    ~OptionalWrapped(last.fields[k].type) =>
                        /\ ~BodyMentions(serialize, last.fields[k].name)
                        /\ ~BodyMentions(deserialize, last.fields[k].name)
        IN  Excluded(SerializeBody(last.code), DeserializeBody(last.code))

\* code holds exactly one line with the signature fragment, and the line
\* after it returns value
Returns(code, fragment, value) ==
    LET at == {k \in 1..Len(code) : Contains(code[k], fragment)}
    IN  /\ Cardinality(at) = 1
        /\ \A k \in at : k < Len(code) /\ Strip(code[k + 1]) = "return " \o value \o ";"

\* C13: the generated text always holds GetPrimaryKey, GetPrimaryKeyName and
\* GetTableName, with or without optional fields, validation markers and
\* key fields: GetPrimaryKey returns the first key field (0 when there is
\* none), GetPrimaryKeyName its name as a literal (the empty string when
\* there is none), GetTableName the class name as a literal.
C13_PrimaryKeyMethodsAlways ==
    Generated =>
        LET Key(code, name) ==
                /\ Returns(code, "GetPrimaryKey()", IF name = "" THEN "0" ELSE name)
                /\ Returns(code, "GetPrimaryKeyName()", "\"" \o name \o "\"")
                /\ Returns(code, "GetTableName()", "\"" \o last.class_name \o "\"")
        IN  Key(last.code, IF last.id_fields = <<>> THEN "" ELSE last.id_fields[1].name)

\* generated for a class with no key field, no optional field and no
\* validation marker
C13_GeneratedForBareClass ==
    /\ Generated
    /\ last.id_fields = <<>>
    /\ last.validation_fields_by_macro = <<>>
    /\ Len(last.fields) > 0
    /\ OptionalFields(last.fields) = <<>>
    /\ Returns(last.code, "GetPrimaryKey()", "0")

\* where the identifier that ends just before the final character of s
\* starts, 0 when no identifier ends there
NameStart(s) ==
    LET starts == {i \in 1..Len(s) - 1 : \A j \in i..Len(s) - 1 : Ch(s, j) \in IdentChar}
    IN  IF starts = {} THEN 0 ELSE Min(starts)

\* the name and the type declared by "<type> <name>;"
DeclaredName(s) == IF NameStart(s) = 0 THEN "" ELSE SubSeq(s, NameStart(s), Len(s) - 1)
DeclaredType(s) == IF NameStart(s) = 0 THEN "" ELSE Strip(SubSeq(s, 1, NameStart(s) - 1))

\* the name declared by a line of the form /* @Id */ <type> <name>; and ""
\* for any other line
MarkedFieldName(line) ==
    IF StartsWith(Strip(line), "/* @Id */ ") /\ EndsWith(Strip(line), ";")
    THEN DeclaredName(Strip(line))
    ELSE ""

\* the entity batch has just rewritten the first header
EntityRewritten ==
    /\ last.op = "process_all_serializable_classes"
    /\ ~last.dry_run
    /\ ~last.raised
    /\ CanRead(last.before, HeaderA)
    /\ CanRead(disk, HeaderA)
    /\ disk[HeaderA] # last.before[HeaderA]

\* C14: for a header whose key marker and field share a line,
\* /* @Id */ <type> <name>;, with other fields after it, the entity pipeline
\* injects a GetPrimaryKey() that returns the marked field, never a later
\* field.
C14_SameLineMarkerNamesKey ==
    EntityRewritten =>
        LET Key(before, after) ==
                \A k \in 1..Len(before) :
                    MarkedFieldName(before[k]) # "" =>
                        Returns(after, "GetPrimaryKey()", MarkedFieldName(before[k]))
        IN  Key(ReadLines(last.before, HeaderA), ReadLines(disk, HeaderA))

\* line assigns the member name of the object under construction
Assigns(line, name) == StartsWith(Strip(line), "obj." \o name \o " = ")

\* line k of body lies inside the block of a check that the JSON value of
\* name is not null
UnderNullCheck(body, k, name) ==
    \E j \in 1..k - 1 :
        /\ body[j] = "        if (!doc[\"" \o name \o "\"].isNull()) {"
        /\ \A m \in j + 1..k : body[m] # "        }"

\* the ValidateFields call and the throw on its message both stand before
\* line k of body
AfterValidation(body, k) ==
    /\ \E j \in 1..k - 1 :
           body[j] = "        StdString validationErrors = ValidateFields(doc);"
    /\ \E j \in 1..k - 1 :
           body[j] = "            throw std::runtime_error(validationErrors.c_str());"

\* C15: in the generated Deserialize every optional field, with or without
\* a validation marker, is assigned only under a check that its JSON value
\* is not null, and the ValidateFields call with its throw precedes every
\* field assignment.
C15_AssignedOnlyWhenPresent ==
    Generated =>
        LET Guarded(body) ==
                \A n \in 1..Len(last.fields) : \A k \in 1..Len(body) :
                    Assigns(body[k], last.fields[n].name) =>
                        /\ UnderNullCheck(body, k, last.fields[n].name)
                        /\ AfterValidation(body, k)
        IN  Guarded(DeserializeBody(last.code))

\* the same for the fields that carry no validation marker
UnvalidatedAssignedOnlyWhenPresent ==
    Generated =>
        LET Guarded(body) ==
                \A n \in 1..Len(last.fields) : \A k \in 1..Len(body) :
                    Assigns(body[k], last.fields[n].name) =>
                        /\ AfterValidation(body, k)
                        /\ \/ UnderNullCheck(body, k, last.fields[n].name)
                           \/ \E v \in 1..Len(last.validation_fields_by_macro) :
                                  \E w \in 1..Len(last.validation_fields_by_macro[v].fields) :
                                      last.validation_fields_by_macro[v].fields[w].name
                                          = last.fields[n].name
        IN  Guarded(DeserializeBody(last.code))

\* line declares a field: "<type> <name>;" and nothing else
FieldLine(line) ==
    /\ EndsWith(Strip(line), ";")
    /\ ~StartsWith(Strip(line), "/")
    /\ ~Contains(line, "(")
    /\ DeclaredName(Strip(line)) # ""
    /\ DeclaredType(Strip(line)) # ""

\* the lines of text from the ValidateFields signature up to the
\* Deserialize heading, as line numbers
InValidateFields(text) ==
    {c \in 1..Len(text) :
        /\ \E a \in 1..c - 1 :
               Strip(text[a]) = "Static StdString ValidateFields(DocType& doc) {"
        /\ \E b \in c + 1..Len(text) : Strip(text[b]) = "// Deserialization method"}

\* the declared type wraps a nested object: optional<T>, T neither a
\* primitive nor a string
NestedObjectType(type) ==
    /\ OptionalWrapped(type)
    /\ ~is_primitive(extract_inner_type_from_optional(type))
    /\ ~is_string(extract_inner_type_from_optional(type))

\* ValidateFields in text calls function on the field, after the nested
\* ValidateFields call when the field is a nested object
ValidatesField(text, function, type, name) ==
    \E c \in InValidateFields(text) :
        /\ Strip(text[c]) = "nayan::validation::" \o function \o "(doc, \"" \o name
                                \o "\", validationErrors);"
        /\ NestedObjectType(type) =>
               \E n \in InValidateFields(text) :
                   /\ n < c
                   /\ Strip(text[n]) = "StdString " \o name \o "_nested_errors = "
                          \o extract_inner_type_from_optional(type)
                          \o "::ValidateFields(" \o name \o "_doc);"

\* every field of before that follows a /// @<macro> line, for the macros
\* numbered in which, is validated in after
MarkedFieldsValidated(before, after, which) ==
    \A k \in 2..Len(before) : \A m \in which :
        (Strip(before[k - 1]) = "/// @" \o validation_macros[m].macro /\ FieldLine(before[k])) =>
            ValidatesField(after, validation_macros[m].function,
                           DeclaredType(Strip(before[k])), DeclaredName(Strip(before[k])))

\* C16: for every field of the class that is preceded by a validation
\* marker /// @X with X in the validation-macro table, whatever its declared
\* type, the generated ValidateFields calls X's validation function on the
\* field, after the nested ValidateFields call when the field's inner type
\* is a nested object.
C16_EveryMarkedFieldValidated ==
    EntityRewritten =>
        MarkedFieldsValidated(ReadLines(last.before, HeaderA), ReadLines(disk, HeaderA),
                              1..Len(validation_macros))

\* the same for the markers whose function accepts every type
UntypedMarkersValidated ==
    EntityRewritten =>
        MarkedFieldsValidated(ReadLines(last.before, HeaderA), ReadLines(disk, HeaderA),
                              {m \in 1..Len(validation_macros) :
                                  ~requires_string_type(validation_macros[m].function)})

(***************************************************************************)
(* Properties of the marker mutators                                       *)
(***************************************************************************)
\* a marker mutator has just run on a readable header
Mutated ==
    /\ last.op \in {"mark_dto_annotation_processed", "comment_repository_annotation"}
    /\ CanRead(last.before, HeaderA)

\* line is a marker the mutator op has still to process
UnprocessedMarker(op, line) ==
    IF op = "mark_dto_annotation_processed"
    THEN Strip(line) = "/* @Entity */"
    ELSE Strip(line) \in {"/// @Repository", "///@Repository"}

\* the processed form the mutator op writes
Sentinel(op) ==
    IF op = "mark_dto_annotation_processed" THEN "/*--@Entity--*/" ELSE "/* @Repository */"

\* line is a marker of the mutator op in processed form
ProcessedMarker(op, line) == Strip(line) = Sentinel(op)

\* the numbers of the lines that differ between two texts of one length
ChangedLines(before, after) == {k \in 1..Len(before) : before[k] # after[k]}

\* C17: one invocation of a marker mutator rewrites at most one marker
\* line, the first unprocessed one, and leaves every other line of the file
\* unchanged, also when the file holds several unprocessed markers.
C17_AtMostFirstMarkerRewritten ==
    Mutated =>
        LET First(before, after) ==
                /\ CanRead(disk, HeaderA)
                /\ Len(after) = Len(before)
                /\ Cardinality(ChangedLines(before, after)) <= 1
                /\ \A k \in ChangedLines(before, after) :
                       /\ UnprocessedMarker(last.op, before[k])
                       /\ \A j \in 1..k - 1 : ~UnprocessedMarker(last.op, before[j])
        IN  First(ReadLines(last.before, HeaderA), ReadLines(disk, HeaderA))

\* the same for comment_repository_annotation alone
RepositoryAtMostFirstMarkerRewritten ==
    last.op = "comment_repository_annotation" => C17_AtMostFirstMarkerRewritten

\* the leading run of spaces and tabs of line
Indentation(line) == SubSeq(line, 1, Skip(line, 1, {" ", "\t"}) - 1)

\* C18: a rewritten marker line consists of exactly the original line's
\* leading whitespace, spaces and tabs alike, followed by the processed
\* sentinel; when the marker is already in processed form the file is left
\* byte-identical and the call reports success.
C18_IndentationKeptAndProcessedUntouched ==
    Mutated =>
        LET Kept(before, after) ==
                /\ \A k \in ChangedLines(before, after) :
                       k <= Len(after) /\
                       after[k] = Indentation(before[k]) \o Sentinel(last.op) \o "\n"
                /\ ( /\ \E k \in 1..Len(before) : ProcessedMarker(last.op, before[k])
                     /\ \A k \in 1..Len(before) : ~UnprocessedMarker(last.op, before[k]) )
                   => (disk = last.before /\ last.ret)
        IN  Kept(ReadLines(last.before, HeaderA), ReadLines(disk, HeaderA))

\* the same for the headers whose markers are indented with spaces only
SpaceIndentationKept ==
    (Mutated /\ \A k \in 1..Len(ReadLines(last.before, HeaderA)) :
                    ~Contains(Indentation(ReadLines(last.before, HeaderA)[k]), "\t"))
        => C18_IndentationKeptAndProcessedUntouched

(***************************************************************************)
(* Properties of the double-injection guard                                *)
(***************************************************************************)
\* the signature fragments of the generated methods
GeneratedFragments == {"Serialize()", "ValidateFields(", "Deserialize(", "GetPrimaryKey()",
                       "GetPrimaryKeyName()", "GetTableName()"}

\* how many lines of text hold the fragment
LinesWith(text, fragment) == Cardinality({k \in 1..Len(text) : Contains(text[k], fragment)})

\* the text of the class, "" when the class is not found
ClassText(lines, class_name) ==
    LET Text(span) == IF span = None THEN "" ELSE Join(SubSeq(lines, span[1], span[2]))
    IN  Text(BoundariesOf(lines, class_name))

\* C19: inject_methods_into_class never leaves a class holding two
\* definitions of the same generated method: when the class text already
\* holds a generated method's signature fragment before the call, the call
\* inserts no further definition of it.
C19_NoSecondDefinition ==
    (last.op = "inject_methods_into_class" /\ CanRead(last.before, last.path)) =>
        LET Single(before, after) ==
                \A fragment \in GeneratedFragments :
                    Contains(ClassText(before, last.class_name), fragment) =>
                        LinesWith(after, fragment) = LinesWith(before, fragment)
        IN  Single(ReadLines(last.before, last.path), ReadLines(disk, last.path))

\* the same for the classes that hold all three fragments the guard tests
GuardedNoSecondDefinition ==
    (last.op = "inject_methods_into_class" /\ CanRead(last.before, last.path) /\ GuardHit)
        => C19_NoSecondDefinition /\ disk = last.before /\ last.ret

(***************************************************************************)
(* Properties of an existing implementation file                           *)
(***************************************************************************)
\* the call found the implementation file of Repo in the library
ImplExisted ==
    /\ last.op \in {"implement_repository", "process_repository"}
    /\ last.before[RepoImpl].exists

\* what process_repository does to the header when it has to create the
\* implementation file itself
FreshRun == process_repository([last.before EXCEPT ![RepoImpl] = Missing], last.path,
                               library_dir, last.dry_run)

\* the header holds an unprocessed /// @Repository marker of Repo
RepoDetected(fs, path) ==
    /\ CanRead(fs, path)
    /\ \E k \in 1..Len(ReadLines(fs, path)) :
           Strip(ReadLines(fs, path)[k]) \in {"/// @Repository", "///@Repository"}
    /\ \E k \in 1..Len(ReadLines(fs, path)) :
           Strip(ReadLines(fs, path)[k]) = "DefineStandardPointers(Repo)"

\* C20: implement_repository never changes an existing implementation
\* file: if <library>/src/repository/<ClassName>Impl.h exists before the
\* call it is identical after the call and the call reports that nothing
\* was created; process_repository then still adds the include and flips
\* the marker, exactly as it does when it creates the file itself.
C20_ExistingImplKept ==
    ImplExisted =>
        /\ disk[RepoImpl] = last.before[RepoImpl]
        /\ last.op = "implement_repository" => (~last.ret /\ disk = last.before)
        /\ (last.op = "process_repository" /\ RepoDetected(last.before, last.path)) =>
               LET Same(fresh) ==
                       /\ disk[last.path] = fresh.fs[last.path]
                       /\ last.ret = fresh.ret
               IN  Same(FreshRun)

\* process_repository has included and marked a header whose implementation
\* file was there before the call, and has left that file alone
C20_IncludedExistingImpl ==
    /\ last.op = "process_repository"
    /\ ~last.dry_run
    /\ last.ret
    /\ last.before[RepoImpl] \in ImplFiles \ {Missing}
    /\ last.before[RepoImpl].lines # <<>>
    /\ RepoDetected(last.before, last.path)
    /\ ~RepoDetected(disk, last.path)
    /\ disk[RepoImpl] = last.before[RepoImpl]
    /\ IncludeExists(ReadContent(disk, last.path), RepoImpl)
    /\ ~IncludeExists(ReadContent(last.before, last.path), RepoImpl)
    /\ \E k \in 1..Len(ReadLines(disk, last.path)) :
           Strip(ReadLines(disk, last.path)[k]) = "/* @Repository */"

(***************************************************************************)
(* Properties of the functions on method names                             *)
(***************************************************************************)
SixActions == {"Find", "Delete", "Save", "Update", "Exists", "Count"}

\* C21: extract_method_action returns None or one of exactly six actions
\* {Find, Delete, Save, Update, Exists, Count}, and it returns action A
\* exactly when the name starts with A followed by "By", or equals A,
\* A + "All" or A + "ById"; FindByLastName gives Find, DeleteById Delete,
\* Save Save, CountByStatus Count and RandomHelper None.
C21_SixActions ==
    last.op = "extract_method_action" =>
        /\ last.result \in {None} \cup {Some(A) : A \in SixActions}
        /\ \A A \in SixActions :
               last.result = Some(A) <=>
                   \/ StartsWith(last.input, A \o "By")
                   \/ last.input \in {A, A \o "All", A \o "ById"}
        /\ last.input = "FindByLastName" => last.result = Some("Find")
        /\ last.input = "DeleteById" => last.result = Some("Delete")
        /\ last.input = "Save" => last.result = Some("Save")
        /\ last.input = "CountByStatus" => last.result = Some("Count")
        /\ last.input = "RandomHelper" => last.result = None

\* the action of a name that holds no "By" has been extracted
C21_StandaloneActionExtracted ==
    /\ last.op = "extract_method_action"
    /\ last.input = "DeleteAll"
    /\ last.result = Some("Delete")

\* the identifier in front of the first parenthesis of a declaration
DeclaredMethod(declaration) ==
    LET Before(e) ==
            LET runs == {n \in 1..e : \A j \in n..e : Ch(declaration, j) \in IdentChar}
            IN  IF runs = {} THEN "" ELSE SubSeq(declaration, Min(runs), e)
        parens == {p \in 1..Len(declaration) : Ch(declaration, p) = "("}
    IN  IF parens = {} THEN "" ELSE Before(SkipBack(declaration, Min(parens) - 1))

\* the method name an input stands for: the input itself, or the method a
\* declaration declares
MethodOf(input) == IF Contains(input, "(") THEN DeclaredMethod(input) ELSE Strip(input)

\* the variable name of FindBy<Suffix>, None for any other method name
VariableOf(name) ==
    IF Len(name) > 6 /\ ToLower(SubSeq(name, 1, 6)) = "findby"
    THEN Some(LowerOf(Ch(name, 7)) \o From(name, 8))
    ELSE None

\* C22: extract_findby_variable_name, given a bare method name or a full
\* declaration whose method name is FindBy<Suffix> (in any case, Suffix not
\* empty), returns the suffix with only its first character lowercased, and
\* None for every other input; pascal_to_camel is total, maps the empty
\* string to the empty string and is idempotent.
C22_FindByVariable ==
    /\ last.op = "extract_findby_variable_name" =>
           last.result = VariableOf(MethodOf(last.input))
    /\ last.op = "pascal_to_camel" =>
           /\ last.input = "" => last.result = Some("")
           /\ pascal_to_camel(last.result[1]) = last.result[1]

\* the same for the declarations whose return type has two characters or
\* more and is separated from the method name by whitespace
LongReturnTypeFindByVariable ==
    (~StartsWith(last.input, "T ") /\ ~Contains(last.input, " *")) => C22_FindByVariable

\* the FindBy<Suffix> methods of one parameter that a repository header of
\* SpecFinders declares
DeclaredFinders(lines) ==
    {d \in UNION {FinderPool(E) : E \in FinderEntities} :
        d.method # "" /\ \E k \in 1..Len(lines) : lines[k] = d.lines[1]}

\* the implementation holds an override of the method whose body compares
\* the field of the entity with the parameter
HasFindByOverride(lines, d) ==
    \E k \in 1..Len(lines) :
        /\ Contains(lines[k], " " \o d.method \o "(")
        /\ Contains(lines[k], ") override {")
        /\ \E j \in (k + 1)..Min({k + 4, Len(lines)}) :
               Contains(lines[j],
                        "if (entity." \o d.field \o " == " \o d.parameter \o ") {")

\* the implementation holds the delegating bodies of the standard operations
HasDelegatingBodies(lines) ==
    \A op \in {"Save", "FindById", "FindAll", "Update", "DeleteById", "Delete",
               "ExistsById"} :
        \E k \in 1..Len(lines) : Contains(lines[k], ">::" \o op \o "(")

\* a run that wrote the implementation file of the repository of HeaderA
WroteRepoImpl ==
    /\ last.op \in {"implement_repository", "process_repository"}
    /\ ~last.dry_run
    /\ ~last.before[RepoImpl].exists
    /\ disk[RepoImpl].exists

\* C23: for every method of the repository interface that is named
\* FindBy<Suffix> and declared with one parameter p, with or without an
\* access keyword, the implementation file written holds an override of the
\* method whose body compares entity.<camelCase(Suffix)> == p, besides the
\* delegating bodies of the standard operations
C23_FindByOverridesGenerated ==
    WroteRepoImpl =>
        /\ HasDelegatingBodies(disk[RepoImpl].lines)
        /\ \A d \in DeclaredFinders(last.before[HeaderA].lines) :
               HasFindByOverride(disk[RepoImpl].lines, d)

\* the same for the methods declared on one line with a return type of two
\* characters or more
OneLineFindByOverridesGenerated ==
    WroteRepoImpl =>
        /\ HasDelegatingBodies(disk[RepoImpl].lines)
        /\ \A d \in DeclaredFinders(last.before[HeaderA].lines) :
               (Len(d.lines) = 1 /\ ~Contains(d.lines[1], " A FindBy"))
                   => HasFindByOverride(disk[RepoImpl].lines, d)

\* an override was generated for a method declared without access keyword
FindByOverrideWithoutAccess ==
    /\ WroteRepoImpl
    /\ \E d \in DeclaredFinders(last.before[HeaderA].lines) :
           /\ d.method = "FindByLastName"
           /\ HasFindByOverride(disk[RepoImpl].lines, d)

\* the functions of the repository pipeline and the injector that take dry_run
DryRunFunctions ==
    {"process_repository", "implement_repository", "add_include_to_file",
     "comment_repository_annotation", "inject_methods_into_class"}

MarkedClassText(lines, i) ==
    LET closes == {k \in (i + 1)..Len(lines) : StartsWith(Strip(lines[k]), "};")}
    IN  IF closes = {} THEN "" ELSE Join(SubSeq(lines, i + 1, Min(closes)))

\* the class marked on line i holds the injected methods
HoldsInjectedMethods(lines, i) ==
    /\ Contains(MarkedClassText(lines, i), "Serialize()")
    /\ Contains(MarkedClassText(lines, i), "Deserialize(")
    /\ Contains(MarkedClassText(lines, i), "GetPrimaryKey()")

\* the numbers of the lines that hold an entity marker in processed form
ProcessedEntityMarkers(lines) ==
    {i \in 1..Len(lines) : ProcessedLineMatch(Strip(lines[i]), "@Entity")}

\* C25: after any sequence of runs of the entity pipeline on headers that
\* hold one or more annotated classes, every class whose marker has been
\* rewritten to the processed form holds the injected Serialize, Deserialize
\* and GetPrimaryKey: no marker is rewritten for a class into which nothing
\* was injected
C25_ProcessedClassesHoldMethods ==
    \A k \in 1..Len(header_files) :
        CanRead(disk, header_files[k]) =>
            \A i \in ProcessedEntityMarkers(ReadLines(disk, header_files[k])) :
                HoldsInjectedMethods(ReadLines(disk, header_files[k]), i)

\* the same for the headers that hold one marker
SingleProcessedClassHoldsMethods ==
    \A k \in 1..Len(header_files) :
        CanRead(disk, header_files[k]) =>
            \A i \in ProcessedEntityMarkers(ReadLines(disk, header_files[k])) :
                Cardinality(ProcessedEntityMarkers(ReadLines(disk, header_files[k]))) = 1
                    => HoldsInjectedMethods(ReadLines(disk, header_files[k]), i)

(***************************************************************************)
(* Properties of the steps of process_repository                           *)
(***************************************************************************)
\* the header of the file system fs holds the repository marker in
\* processed form
MarkerProcessedIn(fs) ==
    /\ CanRead(fs, HeaderA)
    /\ \E k \in 1..Len(SplitNl(ReadContent(fs, HeaderA))) :
           RepositoryProcessedLineMatch(Strip(SplitNl(ReadContent(fs, HeaderA))[k]))

MarkerProcessed == MarkerProcessedIn(disk)

\* the header holds the include of the implementation file
Included ==
    /\ CanRead(disk, HeaderA)
    /\ IncludeExists(ReadContent(disk, HeaderA), RepoImpl)

\* a run taken step by step to its end leaves what the call leaves
StepsAgreeWithCall ==
    last.pc = "done" =>
        /\ disk = process_repository(last.before, last.path, library_dir, last.dry_run).fs
        /\ last.ret = process_repository(last.before, last.path, library_dir, last.dry_run).ret

\* C26: in every state that runs of process_repository reach, runs stopped
\* between two steps included, a header whose marker is processed holds the
\* include of the implementation file, and that file exists; the marker is
\* rewritten only by the last step of a run whose add_include_to_file
\* reported success.
C26_MarkerProcessedAfterInclude ==
    /\ [](MarkerProcessed => (Included /\ disk[RepoImpl].exists))
    /\ [][(~MarkerProcessedIn(disk) /\ MarkerProcessedIn(disk'))
              => (last.pc = "comment" /\ last.include_added /\ ~last.dry_run)]_vars

\* a run created the implementation file, added the include and rewrote
\* the marker
C26_RunCompleted ==
    /\ last.pc = "done"
    /\ last.ret
    /\ ~last.dry_run
    /\ ~last.before[RepoImpl].exists
    /\ MarkerProcessed
    /\ Included
    /\ disk[RepoImpl].exists

\* how many lines of the header include the implementation file
IncludeLines ==
    IF ~CanRead(disk, HeaderA) THEN 0
    ELSE Cardinality({k \in 1..Len(ReadLines(disk, HeaderA)) :
                         IncludeExists(ReadLines(disk, HeaderA)[k], RepoImpl)})

\* the include is there and the marker is still to be rewritten
PartiallyProcessed == Included /\ ~MarkerProcessed

FullyProcessed == Included /\ MarkerProcessed /\ disk[RepoImpl].exists

\* a real run has gone through its steps to the end
RealRunDone == last.pc = "done" /\ ~last.dry_run

\* C27: when a run of process_repository stops after the include was added
\* and before the marker was rewritten, later complete runs rewrite the
\* marker and add no second include: from every partially processed state,
\* real runs that keep being completed eventually reach the fully processed
\* state.
C27_PartialRunsComplete ==
    /\ [](IncludeLines <= 1)
    /\ ([]<>RealRunDone) => (PartiallyProcessed ~> FullyProcessed)

\* once a run has stopped or ended in a partially processed state, no step
\* changes a file
PartialStateKept ==
    [][(PartiallyProcessed /\ last.pc \in {"stopped", "done"} /\ last'.pc # "stopped")
           => (disk' = disk /\ last'.pc # "comment")]_vars

\* no run adds a second include
SingleInclude == IncludeLines <= 1

(***************************************************************************)
(* Properties of the branch taken for the inner type of an optional field  *)
(***************************************************************************)
\* the names of the string types
string_type_names == {"StdString", "CStdString", "string", "std::string"}

\* inner_type is one of the primitive or string type names
PrimitiveOrStringName(inner_type) ==
    \/ \E k \in 1..Len(primitive_types) : inner_type = primitive_types[k]
    \/ inner_type \in string_type_names

\* Serialize() hands the field to SerializeValue and Deserialize() takes it
\* from DeserializeValue
ThroughValueHooks(code, type, name) ==
    /\ \E k \in 1..Len(SerializeBody(code)) :
           Strip(SerializeBody(code)[k]) =
               "StdString " \o name \o "_json = nayan::serializer::SerializeValue("
                   \o name \o ".value());"
    /\ \E k \in 1..Len(DeserializeBody(code)) :
           Strip(DeserializeBody(code)[k]) =
               "obj." \o name \o " = nayan::serializer::DeserializeValue<"
                   \o extract_inner_type_from_optional(Strip(type)) \o ">("
                   \o name \o "_json);"

\* Serialize() and Deserialize() move the value of the field directly
DirectValue(code, name) ==
    /\ \E k \in 1..Len(SerializeBody(code)) :
           Strip(SerializeBody(code)[k]) \in
               {"doc[\"" \o name \o "\"] = " \o name \o ".value();",
                "doc[\"" \o name \o "\"] = " \o name \o ".value().c_str();"}
    /\ \E k \in 1..Len(DeserializeBody(code)) :
           StartsWith(Strip(DeserializeBody(code)[k]),
                      "obj." \o name \o " = doc[\"" \o name \o "\"].as<")
           \/ StartsWith(Strip(DeserializeBody(code)[k]),
                      "obj." \o name \o " = StdString(doc[\"" \o name \o "\"].as<")

\* C28: the generator treats the inner type of an optional field as
\* primitive or string only when it is one of the primitive or string type
\* names; every other inner type, also one whose name merely contains a
\* primitive type name, is serialized through SerializeValue and
\* deserialized through DeserializeValue.
C28_OnlyNamedTypesAreDirect ==
    Generated =>
        \A k \in 1..Len(last.fields) :
            OptionalWrapped(last.fields[k].type) =>
                IF PrimitiveOrStringName(
                       extract_inner_type_from_optional(Strip(last.fields[k].type)))
                THEN DirectValue(last.code, last.fields[k].name)
                     /\ ~ThroughValueHooks(last.code, last.fields[k].type, last.fields[k].name)
                ELSE ThroughValueHooks(last.code, last.fields[k].type, last.fields[k].name)
                     /\ ~DirectValue(last.code, last.fields[k].name)

\* inner_type holds no primitive or string type name inside a longer name
NoNameInside(inner_type) ==
    (is_primitive(inner_type) \/ is_string(inner_type)) => PrimitiveOrStringName(inner_type)

\* the branches are the stated ones for the inner types that hold no
\* primitive or string type name inside a longer name
NamedTypesAreDirect ==
    Generated =>
        \A k \in 1..Len(last.fields) :
            (/\ OptionalWrapped(last.fields[k].type)
             /\ NoNameInside(extract_inner_type_from_optional(Strip(last.fields[k].type))))
            => IF PrimitiveOrStringName(
                      extract_inner_type_from_optional(Strip(last.fields[k].type)))
               THEN DirectValue(last.code, last.fields[k].name)
                    /\ ~ThroughValueHooks(last.code, last.fields[k].type, last.fields[k].name)
               ELSE ThroughValueHooks(last.code, last.fields[k].type, last.fields[k].name)
                    /\ ~DirectValue(last.code, last.fields[k].name)

\* a nested class whose name holds a primitive type name is moved directly
NestedTreatedAsPrimitive ==
    /\ Generated
    /\ \E k \in 1..Len(last.fields) :
           /\ last.fields[k].type = "optional<Point>"
           /\ DirectValue(last.code, last.fields[k].name)

(***************************************************************************)
(* Properties of the include the entity pipeline adds                      *)
(***************************************************************************)
\* the class of the file that the pipeline works on has an optional-wrapped
\* field
OptionalFieldIn(fields) ==
    \E k \in 1..Len(fields) : OptionalWrapped(fields[k].type)

ClassHasOptionalField(fs, path, dto) ==
    /\ ~dto.raised
    /\ dto.info.has_dto
    /\ OptionalFieldIn(ExtractAllFields(fs, path, dto.info.class_name).fields)

\* no line of the file is an #include directive for <optional>
NoOptionalInclude(lines) ==
    \A k \in 1..Len(lines) :
        ~(StartsWith(Strip(lines[k]), "#include") /\ Contains(lines[k], "<optional>"))

\* the pipeline, run for real, has processed the class of the file
EntityProcessed(path) ==
    /\ last.op = "process_all_serializable_classes"
    /\ ~last.dry_run
    /\ ~last.raised
    /\ last.before[path].exists
    /\ disk[path] # last.before[path]

\* line k of lines is `#include <optional>`, after the last #include line of
\* the file, or after the header-guard #define when the file has no #include
OptionalIncludePlaced(lines, before) ==
    \E k \in 1..Len(lines) :
        /\ lines[k] = "#include <optional>\n"
        /\ IF LastIncludeIdx(before) > 0 THEN k = LastIncludeIdx(before) + 1
           ELSE GuardDefineIdx(before) > 0 /\ k = GuardDefineIdx(before) + 1

\* C29: after the entity pipeline has processed a class with at least one
\* optional-wrapped field in a file that had no #include directive for
\* <optional>, the file holds the line `#include <optional>`, after the last
\* #include line, or after the header-guard #define line when the file has
\* no #include.
C29_OptionalIncludeAdded ==
    \A path \in {HeaderA, HeaderB} :
        (/\ EntityProcessed(path)
         /\ NoOptionalInclude(last.before[path].lines)
         /\ ClassHasOptionalField(last.before, path,
                CheckDtoAnnotation(last.before, path, SERIALIZABLE_MACRO)))
        => OptionalIncludePlaced(disk[path].lines, last.before[path].lines)

\* the pipeline adds no #include line to a file
PipelineAddsNoInclude ==
    \A path \in {HeaderA, HeaderB} :
        EntityProcessed(path) =>
            Cardinality({k \in 1..Len(disk[path].lines) :
                            StartsWith(Strip(disk[path].lines[k]), "#include")})
            = Cardinality({k \in 1..Len(last.before[path].lines) :
                            StartsWith(Strip(last.before[path].lines[k]), "#include")})

\* a class with an optional field was processed in a file that had an
\* #include line and none for <optional>
ProcessedWithoutOptionalInclude ==
    /\ EntityProcessed(HeaderA)
    /\ LastIncludeIdx(last.before[HeaderA].lines) > 0
    /\ NoOptionalInclude(disk[HeaderA].lines)
    /\ ClassHasOptionalField(last.before, HeaderA,
           CheckDtoAnnotation(last.before, HeaderA, SERIALIZABLE_MACRO))

(***************************************************************************)
(* Properties of the look-ahead windows                                    *)
(***************************************************************************)
\* the line is an access specifier
SpecifierLine(line) == Strip(line) \in {"public:", "private:", "protected:"}

\* lines holds marker at most window lines above declaration, with no
\* access-specifier line in between
DeclarationInWindow(lines, marker, declaration, window) ==
    \E m, d \in 1..Len(lines) :
        /\ Strip(lines[m]) = marker
        /\ Strip(lines[d]) = declaration
        /\ m < d
        /\ d - m <= window
        /\ \A k \in (m + 1)..(d - 1) : ~SpecifierLine(lines[k])

\* C30: an unprocessed marker is associated only with a declaration inside
\* its look-ahead window: a class at most 10 lines below an @Entity marker,
\* a field at most 10 lines below a validation marker, a field at most 15
\* lines below an @Id marker; an access-specifier line met before the
\* declaration ends the search and the marker is associated with nothing.
C30_AssociatedInsideWindow ==
    /\ (last.op = "check_dto_annotation" /\ last.result.has_dto)
           => /\ last.result.class_line - last.result.dto_line <= 10
              /\ DeclarationInWindow(disk[HeaderA].lines, "/* @Entity */", "class A {", 10)
    /\ (last.op = "extract_validation_fields" /\ last.result # <<>>)
           => DeclarationInWindow(disk[HeaderA].lines, "/// @NotNull", "int id;", 10)
    /\ (last.op = "extract_id_fields" /\ last.result # <<>>)
           => DeclarationInWindow(disk[HeaderA].lines, "/* @Id */", "int id;", 15)

\* lines holds marker exactly distance lines above declaration
DeclarationBelow(lines, marker, declaration, distance) ==
    \E m \in 1..Len(lines) :
        /\ Strip(lines[m]) = marker
        /\ m + distance <= Len(lines)
        /\ Strip(lines[m + distance]) = declaration

\* each scan has associated a marker with the declaration on the last line
\* of its window
C30_AssociatedAtWindowEnd ==
    \/ /\ last.op = "check_dto_annotation" /\ last.result.has_dto
       /\ last.result.class_line - last.result.dto_line = 10
    \/ /\ last.op = "extract_validation_fields" /\ last.result # <<>>
       /\ DeclarationBelow(disk[HeaderA].lines, "/// @NotNull", "int id;", 10)
    \/ /\ last.op = "extract_id_fields" /\ last.result # <<>>
       /\ DeclarationBelow(disk[HeaderA].lines, "/* @Id */", "int id;", 15)

\* a declaration inside the window, with blank and comment lines alone in
\* between, is associated
WindowIsSearched ==
    /\ (/\ last.op = "check_dto_annotation"
        /\ DeclarationInWindow(disk[HeaderA].lines, "/* @Entity */", "class A {", 10))
           => last.result.has_dto
    /\ (/\ last.op = "extract_validation_fields"
        /\ DeclarationInWindow(disk[HeaderA].lines, "/// @NotNull", "int id;", 10))
           => last.result # <<>>
    /\ (/\ last.op = "extract_id_fields"
        /\ DeclarationInWindow(disk[HeaderA].lines, "/* @Id */", "int id;", 15))
           => last.result # <<>>
====
